---------------------------- MODULE Spec2Model ----------------------------
(***************************************************************************)
(* A model of indy-rewards: the date/epoch arithmetic (time_utils.py), the *)
(* stability-pool weights and distribution (sp/distribution.py), the       *)
(* liquidity-pool weights and distribution (lp/distribution.py) and the    *)
(* epoch orchestrators.                                                    *)
(*                                                                         *)
(* Conventions.                                                            *)
(*  - A datetime.date is its proleptic Gregorian ordinal (what Python's    *)
(*    date arithmetic works on); Date(y, m, d) builds it.                  *)
(*  - A float is an exact rational <<numerator, denominator>> with a       *)
(*    positive denominator, kept in lowest terms; IEEE rounding error is   *)
(*    outside the model.                                                   *)
(*  - A call that raises leaves "raise" (with the exception's origin) in   *)
(*    the component's status variable and no result.                       *)
(***************************************************************************)
EXTENDS Integers, Sequences, FiniteSets, TLC

VARIABLES
    t_call,     \* time_utils: the function last called ("none" before any call)
    t_arg,      \* time_utils: its argument (a date ordinal or an epoch)
    t_ret,      \* time_utils: its return value
    w_day,      \* sp.get_pool_weights: argument day
    w_sat,      \* argument saturations (dict IAsset -> float)
    w_mcap,     \* argument market_caps (dict IAsset -> float)
    w_new,      \* argument new_iassets (set of IAsset)
    w_hs,       \* argument has_stakers (set of IAsset)
    w_vol,      \* what volatility.get_all_volatilities(day) answers
    w_status,   \* "idle" before the call, then "return" or "raise"
    w_ret,      \* the returned weights (dict IAsset -> float)
    k_a,        \* lp._calculate_k: argument a, the INDY of an epoch
    k_b,        \* argument b, the saturations (dict IAsset -> float)
    k_c,        \* argument c, the prices (dict IAsset -> float)
    k_d,        \* argument d, the total supplies (dict IAsset -> float)
    k_status,   \* "idle" before the call, then "return" or "raise"
    k_ret,      \* the returned k values (dict IAsset -> float)
    p_indy,     \* sp._pro_rata_distribute: argument indy_to_distribute
    p_accounts, \* argument accounts (dict owner PKH -> weight)
    p_day,      \* argument day
    p_status,   \* "idle" before the call, then "return" or "raise"
    p_ret,      \* the returned list of IndividualReward
    l_day,      \* lp.get_rewards_per_staker: argument day
    l_epoch_indy,       \* argument epoch_indy
    l_prices,   \* analytics_api.get_iasset_ada_prices(day)
    l_supplies, \* analytics_api.get_iasset_supplies(day)
    l_statuses, \* analytics_api.get_lp_status(day)
    l_staker_info,      \* analytics_api.get_account_staked_lp_tokens(day)
    l_status,   \* "idle" before the call, then "return" or "raise"
    l_iasset_rewards,   \* the list returned by get_iassets_daily_indy
    l_pools_status,     \* distribute_to_liquidity_pools: "idle", "return", "raise"
    l_pool_rewards,     \* the list returned by distribute_to_liquidity_pools
    l_rewards,  \* the returned list of IndividualReward
    s_day,      \* sp.get_rewards_per_staker: argument day
    s_epoch_indy,       \* argument epoch_indy
    s_all_accounts,     \* analytics_api.raw.rewards_stability_pool(snapshot)
    s_status,   \* "idle" before the call, then "return" or "raise"
    s_eligible, \* eligible_accounts as filtered by _is_at_least_24h_old
    s_rewards_per_pool, \* the list returned by get_rewards_per_pool
    s_rewards,  \* the returned list of IndividualReward
    e_category, \* get_epoch_rewards_per_staker of "sp", "lp" or "gov"
    e_epoch,    \* argument epoch
    e_epoch_indy,       \* argument epoch_indy
    e_account_indy,     \* gov: analytics_api.raw.rewards_staking(snap_timestamp)
    e_done,     \* the number of snapshot days the loop has been through
    e_status,   \* "idle", "running" inside the loop, then "return" or "raise"
    e_rewards,  \* rewards, the list built by the loop and returned
    m_supplies, \* get_iasset_ada_market_caps: what get_iasset_supplies(day) answers
    m_prices,   \* what get_iasset_ada_prices(day) answers
    m_status,   \* "idle" before the call, then "return" or "raise"
    m_ret,      \* the returned market caps (dict IAsset -> float)
    c_first_day,        \* polygon_api.get_daily_closing_prices: argument first_day
    c_last_day, \* argument last_day: <<>> for None, else <<date>>
    c_today,    \* utcnow().date() as the two _is_unfinished_day calls read it
    c_response, \* what _fetch_prices answers when called
    c_fetched,  \* whether _fetch_prices was called
    c_status,   \* "idle" before the call, then "return" or the exception raised
    c_ret,      \* the returned closing prices (dict date -> price)
    u_rewards,  \* summary.get_summary: argument rewards
    u_with_totals,      \* argument with_totals
    u_status,   \* "idle" before the call, then "return"
    u_ret,      \* the returned frame: its rows, each a Purpose and an Amount
    v_iasset,   \* sp._calculate_weight: argument iasset
    v_sat,      \* argument saturations
    v_day,      \* argument day
    v_mcap,     \* argument market_caps
    v_new,      \* argument new_iassets
    v_hs,       \* argument has_stakers
    v_vol,      \* what volatility.get_all_volatilities(day) answers when called
    v_status,   \* "idle" before the call, then "return" or "raise"
    v_fetched,  \* whether volatility.get_all_volatilities was called
    v_ret,      \* the returned weight
    r_epoch,    \* the epoch whose snapshot days get their pool weights
    r_emission, \* sp_epoch_emission(epoch), in hundredths of an INDY
    r_weights,  \* get_pool_weights of each of the 5 snapshot days
    r_status,   \* "idle" before the call, then "done"
    a_epoch,    \* summary.get_epoch_all_rewards: argument epoch
    a_gov_data, \* what rewards_staking lists at the end of the epoch
    a_sp_data,  \* which stability pool accounts each snapshot day has
    a_lp_data,  \* which pools and stakers each snapshot day has
    a_phase,    \* "idle", then "gov", "sp", "lp", and "return" or "raise"
    a_done,     \* the snapshot days the running loop has finished
    a_log,      \* the snapshots fetched so far, each a category and a day
    a_gov,      \* gov_rewards
    a_sp,       \* sp_rewards, as far as the loop has got
    a_lp,       \* the rewards of lp.get_epoch_rewards_per_staker, as far as its loop has got
    a_ret,      \* the returned list
    a_days,      \* get_day_all_rewards of the first snapshot days, one result each
    q_module, \* get_epoch_aprs of "sp" or "lp"
    q_epoch, \* argument epoch
    q_amounts, \* per snapshot day the iAsset amount the pools hold
    q_listed, \* lp: per snapshot day whether the second pool is listed
    q_done, \* the snapshot days the loop has been through
    q_days, \* the daily APRs of each day gone through (dict pool -> float)
    q_daily_aprs, \* daily_aprs, the defaultdict(list) filled by the loop
    q_status, \* "idle", "running" inside the loop, then "return" or "raise"
    q_ret, \* the returned epoch APRs (dict pool -> float)
    g_symbol, \* volatility.get_volatility: argument iasset_symbol
    g_day, \* argument day
    g_today, \* utcnow().date() during the call
    g_market, \* which ADA closing prices Polygon has
    g_status, \* "idle" before the call, then "return" or the exception raised
    g_requests, \* the calls of polygon_api.get_daily_closing_prices made, in order
    g_dates, \* the dates whose prices the volatility is computed from, in order
    g_prices, \* iasset_ada_prices
    g_ret, \* the returned volatility, squared
    d_day, \* analytics_api: argument day of the three calls
    d_liquidity_pools, \* what raw.liquidity_pools() answers
    d_locked_asset, \* what raw.liquidity_pools_locked_asset(timestamp) answers
    d_positions, \* what raw.liquidity_positions(unix_time) answers
    d_circ, \* what get_lp_token_circulating_supplies(day) answers
    d_with, \* get_lp_status: argument with_lp_token_supplies
    d_info, \* unified_lp_info as fetched by get_lp_status
    d_status, \* get_lp_status: "idle" before the call, then "return" or "raise"
    d_ret, \* the returned list of LiquidityPoolStatus
    d_staked_status, \* get_account_staked_lp_tokens: "idle", then "return" or "raise"
    d_staker_info, \* the returned dict LiquidityPool -> staker -> amount
    d_supplies_status, \* get_staked_lp_token_supplies: "idle", then "return"
    d_supplies \* the returned dict token id -> staked amount

timeVars == <<t_call, t_arg, t_ret>>
weightVars == <<w_day, w_sat, w_mcap, w_new, w_hs, w_vol, w_status, w_ret>>
kVars == <<k_a, k_b, k_c, k_d, k_status, k_ret>>
proRataVars == <<p_indy, p_accounts, p_day, p_status, p_ret>>
lpInputs == <<l_day, l_epoch_indy, l_prices, l_supplies, l_statuses, l_staker_info>>
lpVars == <<lpInputs, l_status, l_iasset_rewards, l_pools_status, l_pool_rewards, l_rewards>>
spInputs == <<s_day, s_epoch_indy, s_all_accounts>>
spVars == <<spInputs, s_status, s_eligible, s_rewards_per_pool, s_rewards>>
epochVars == <<e_category, e_epoch, e_epoch_indy, e_account_indy, e_done, e_status, e_rewards>>
marketCapVars == <<m_supplies, m_prices, m_status, m_ret>>
closingPriceVars == <<c_first_day, c_last_day, c_today, c_response, c_fetched, c_status, c_ret>>
summaryVars == <<u_rewards, u_with_totals, u_status, u_ret>>
assetWeightVars == <<v_iasset, v_sat, v_day, v_mcap, v_new, v_hs, v_vol, v_status, v_fetched, v_ret>>

ruleVars == <<r_epoch, r_emission, r_weights, r_status>>

allVars == <<a_epoch, a_gov_data, a_sp_data, a_lp_data, a_phase, a_done, a_log, a_gov, a_sp, a_lp, a_ret, a_days>>

aprVars == <<q_module, q_epoch, q_amounts, q_listed, q_done, q_days, q_daily_aprs, q_status, q_ret>>

volatilityVars == <<g_symbol, g_day, g_today, g_market, g_status, g_requests, g_dates, g_prices, g_ret>>

poolsVars == <<d_day, d_liquidity_pools, d_locked_asset, d_positions, d_circ, d_with, d_info, d_status, d_ret, d_staked_status, d_staker_info, d_supplies_status, d_supplies>>

vars == <<timeVars, weightVars, kVars, proRataVars, lpVars, spVars, epochVars, marketCapVars, closingPriceVars, summaryVars, assetWeightVars, ruleVars, allVars, aprVars, volatilityVars, poolsVars>>

\* What a call of one component leaves alone: the other components.
exceptTime == <<weightVars, kVars, proRataVars, lpVars, spVars, epochVars, marketCapVars, closingPriceVars, summaryVars, assetWeightVars, ruleVars, allVars, aprVars, volatilityVars, poolsVars>>
exceptWeights == <<timeVars, kVars, proRataVars, lpVars, spVars, epochVars, marketCapVars, closingPriceVars, summaryVars, assetWeightVars, ruleVars, allVars, aprVars, volatilityVars, poolsVars>>
exceptK == <<timeVars, weightVars, proRataVars, lpVars, spVars, epochVars, marketCapVars, closingPriceVars, summaryVars, assetWeightVars, ruleVars, allVars, aprVars, volatilityVars, poolsVars>>
exceptProRata == <<timeVars, weightVars, kVars, lpVars, spVars, epochVars, marketCapVars, closingPriceVars, summaryVars, assetWeightVars, ruleVars, allVars, aprVars, volatilityVars, poolsVars>>
exceptLp == <<timeVars, weightVars, kVars, proRataVars, spVars, epochVars, marketCapVars, closingPriceVars, summaryVars, assetWeightVars, ruleVars, allVars, aprVars, volatilityVars, poolsVars>>
exceptSp == <<timeVars, weightVars, kVars, proRataVars, lpVars, epochVars, marketCapVars, closingPriceVars, summaryVars, assetWeightVars, ruleVars, allVars, aprVars, volatilityVars, poolsVars>>
exceptEpoch == <<timeVars, weightVars, kVars, proRataVars, lpVars, spVars, marketCapVars, closingPriceVars, summaryVars, assetWeightVars, ruleVars, allVars, aprVars, volatilityVars, poolsVars>>
exceptMarketCaps == <<timeVars, weightVars, kVars, proRataVars, lpVars, spVars, epochVars, closingPriceVars, summaryVars, assetWeightVars, ruleVars, allVars, aprVars, volatilityVars, poolsVars>>
exceptClosingPrices == <<timeVars, weightVars, kVars, proRataVars, lpVars, spVars, epochVars, marketCapVars, summaryVars, assetWeightVars, ruleVars, allVars, aprVars, volatilityVars, poolsVars>>
exceptSummary == <<timeVars, weightVars, kVars, proRataVars, lpVars, spVars, epochVars, marketCapVars, closingPriceVars, assetWeightVars, ruleVars, allVars, aprVars, volatilityVars, poolsVars>>
exceptAssetWeight == <<timeVars, weightVars, kVars, proRataVars, lpVars, spVars, epochVars, marketCapVars, closingPriceVars, summaryVars, ruleVars, allVars, aprVars, volatilityVars, poolsVars>>
exceptRule == <<timeVars, weightVars, kVars, proRataVars, lpVars, spVars, epochVars, marketCapVars, closingPriceVars, summaryVars, assetWeightVars, allVars, aprVars, volatilityVars, poolsVars>>
exceptAll == <<timeVars, weightVars, kVars, proRataVars, lpVars, spVars, epochVars, marketCapVars, closingPriceVars, summaryVars, assetWeightVars, ruleVars, aprVars, volatilityVars, poolsVars>>
exceptApr == <<timeVars, weightVars, kVars, proRataVars, lpVars, spVars, epochVars, marketCapVars, closingPriceVars, summaryVars, assetWeightVars, ruleVars, allVars, volatilityVars, poolsVars>>
exceptVolatility == <<timeVars, weightVars, kVars, proRataVars, lpVars, spVars, epochVars, marketCapVars, closingPriceVars, summaryVars, assetWeightVars, ruleVars, allVars, aprVars, poolsVars>>
exceptPools == <<timeVars, weightVars, kVars, proRataVars, lpVars, spVars, epochVars, marketCapVars, closingPriceVars, summaryVars, assetWeightVars, ruleVars, allVars, aprVars, volatilityVars>>

---------------------------------------------------------------------------
(* datetime.date: the proleptic Gregorian ordinal of year y, month m, day d *)

IsLeap(y) == (y % 4 = 0) /\ ((y % 100 # 0) \/ (y % 400 = 0))

DaysBeforeYear(y) ==
    LET p == y - 1 IN p * 365 + (p \div 4) - (p \div 100) + (p \div 400)

DaysInMonth(y, m) ==
    IF m = 2 THEN (IF IsLeap(y) THEN 29 ELSE 28)
    ELSE IF m \in {4, 6, 9, 11} THEN 30 ELSE 31

RECURSIVE DaysBeforeMonth(_, _)
DaysBeforeMonth(y, m) ==
    IF m = 1 THEN 0 ELSE DaysBeforeMonth(y, m - 1) + DaysInMonth(y, m - 1)

Date(y, m, d) == DaysBeforeYear(y) + DaysBeforeMonth(y, m) + d

---------------------------------------------------------------------------
(* time_utils.py *)

\* Date of the "0th" epoch.
ref_date == Date(2017, 9, 23)

\* date_to_epoch with the "- 1" forgotten: a transition date falls in the
\* later epoch.
date_to_epoch_no_shift(date) == (date - ref_date) \div 5

date_to_epoch(date) ==
    LET days_diff == (date - ref_date) - 1
    IN  days_diff \div 5

\* get_epoch_end_date returning the epoch's start instead of its end.
get_epoch_end_date_off_by_one(epoch) == ref_date + epoch * 5

get_epoch_end_date(epoch) ==
    LET days_from_ref == (epoch + 1) * 5
    IN  ref_date + days_from_ref

\* get_epoch_snapshot_dates listing the newest day first.
get_epoch_snapshot_dates_newest_first(epoch) ==
    LET end == get_epoch_end_date(epoch)
    IN  [i \in 1..5 |-> end - (i - 1)]

get_epoch_snapshot_dates(epoch) ==
    LET end == get_epoch_end_date(epoch)
    IN  [i \in 1..5 |-> end - (5 - i)]

\* get_reward_expiration counting the 90 days from the reward day itself.
get_reward_expiration_from_day(day) ==
    [day |-> day + 90, hour |-> 21, minute |-> 45]

\* The expiration is at 21:45 of its day.
get_reward_expiration(day) ==
    [day |-> get_epoch_end_date(date_to_epoch(day)) + 90, hour |-> 21, minute |-> 45]

SecondsPerDay == 86400

\* The snapshot of a day is taken at 21:45 UTC; unix time counts from 1970-01-01.
get_snapshot_unix_time(day) ==
    (day - Date(1970, 1, 1)) * SecondsPerDay + 21 * 3600 + 45 * 60

\* Bounds of the dates and epochs the calls are tried on.
DaysBeforeRef == 12
DaysAfterRef == 2060
EpochsBeforeRef == 3
EpochsAfterRef == 411

TimeDates == (ref_date - DaysBeforeRef) .. (ref_date + DaysAfterRef)
TimeEpochs == (0 - EpochsBeforeRef) .. EpochsAfterRef

IdleTime ==
    /\ t_call = "none"
    /\ t_arg = 0
    /\ t_ret = 0

DateToEpochCall(date) ==
    /\ t_call' = "date_to_epoch"
    /\ t_arg' = date
    /\ t_ret' = date_to_epoch(date)
    /\ UNCHANGED exceptTime

GetEpochEndDateCall(epoch) ==
    /\ t_call' = "get_epoch_end_date"
    /\ t_arg' = epoch
    /\ t_ret' = get_epoch_end_date(epoch)
    /\ UNCHANGED exceptTime

GetEpochSnapshotDatesCall(epoch) ==
    /\ t_call' = "get_epoch_snapshot_dates"
    /\ t_arg' = epoch
    /\ t_ret' = get_epoch_snapshot_dates(epoch)
    /\ UNCHANGED exceptTime

GetRewardExpirationCall(day) ==
    /\ t_call' = "get_reward_expiration"
    /\ t_arg' = day
    /\ t_ret' = get_reward_expiration(day)
    /\ UNCHANGED exceptTime

NextTime ==
    \/ \E date \in TimeDates : DateToEpochCall(date)
    \/ \E epoch \in TimeEpochs : GetEpochEndDateCall(epoch)
    \/ \E epoch \in TimeEpochs : GetEpochSnapshotDatesCall(epoch)
    \/ \E day \in TimeDates : GetRewardExpirationCall(day)

---------------------------------------------------------------------------
(* Floats as exact rationals <<n, d>>, d > 0, in lowest terms *)

Abs(x) == IF x < 0 THEN 0 - x ELSE x

RECURSIVE GCD(_, _)
GCD(a, b) == IF b = 0 THEN a ELSE GCD(b, a % b)

Rat(n, d) ==
    LET s == IF d < 0 THEN 0 - 1 ELSE 1
        g == GCD(Abs(n), Abs(d))
    IN  <<(s * n) \div g, (s * d) \div g>>

Zero == <<0, 1>>
One == <<1, 1>>

RAdd(a, b) ==
    LET g == GCD(a[2], b[2])
    IN  Rat(a[1] * (b[2] \div g) + b[1] * (a[2] \div g), a[2] * (b[2] \div g))

RSub(a, b) == RAdd(a, <<0 - b[1], b[2]>>)

RMul(a, b) ==
    LET g1 == GCD(Abs(a[1]), b[2])
        g2 == GCD(Abs(b[1]), a[2])
    IN  Rat((a[1] \div g1) * (b[1] \div g2), (a[2] \div g2) * (b[2] \div g1))

\* a / b, for b # 0 (Python raises ZeroDivisionError otherwise: the callers
\* test for it first)
RDiv(a, b) == RMul(a, Rat(b[2], b[1]))

RLt(a, b) == a[1] * b[2] < b[1] * a[2]
RLe(a, b) == a[1] * b[2] <= b[1] * a[2]

\* sum(f[k] for k in keys)
RECURSIVE RSum(_, _)
RSum(f, keys) ==
    IF keys = {} THEN Zero
    ELSE LET k == CHOOSE x \in keys : TRUE
         IN  RAdd(f[k], RSum(f, keys \ {k}))

\* abs(total - 1) > 1e-8, without leaving 32 bits: a denominator is below
\* 2^31 < 21 * 10^8, so a difference of 21 numerator units is already more
TenToThe8 == 100000000
FarFromOne(total) ==
    LET diff == Abs(total[1] - total[2])
    IN  (diff >= 21) \/ (diff * TenToThe8 > total[2])

---------------------------------------------------------------------------
(* models.py: IAsset *)

IAsset == {"iUSD", "iBTC", "iETH"}

\* str.lower() on the asset names that occur
Lower(name) ==
    CASE name \in {"iUSD", "iusd", "IUSD"} -> "iusd"
      [] name \in {"iBTC", "ibtc", "IBTC"} -> "ibtc"
      [] name \in {"iETH", "ieth", "IETH"} -> "ieth"
      [] name \in {"iSOL", "isol", "ISOL"} -> "isol"

\* IAsset.from_str(name) raises ValueError when no member matches
from_str_raises(name) == \A member \in IAsset : Lower(member) # Lower(name)

from_str(name) == CHOOSE member \in IAsset : Lower(member) = Lower(name)

---------------------------------------------------------------------------
(* sp/distribution.py: the pool weights *)

\* A result: either the call raised, or it returned val.
Raised == [raised |-> TRUE, val |-> <<>>]
Returned(v) == [raised |-> FALSE, val |-> v]

\* The dict literal {IAsset.from_str(name): weight, ...} of a hard-coded
\* table, given as a sequence of <<name, weight>>: building it raises when a
\* from_str does.
DictFromStr(table) ==
    IF \E i \in DOMAIN table : from_str_raises(table[i][1])
    THEN Raised
    ELSE Returned([a \in {from_str(table[i][1]) : i \in DOMAIN table} |->
                    LET i == CHOOSE j \in DOMAIN table : from_str(table[j][1]) = a
                    IN  table[i][2]])

Table_2024_12_05 ==
    << <<"ibtc", Rat(360619, 2118977)>>, <<"ieth", Rat(117691, 2118977)>>,
       <<"iusd", Rat(1540667, 2118977)>>, <<"isol", Rat(100000, 2118977)>> >>

Table_2024_11_26 ==
    << <<"ibtc", Rat(246929, 1966435)>>, <<"ieth", Rat(150489, 1966435)>>,
       <<"iusd", Rat(1469017, 1966435)>>, <<"isol", Rat(100000, 1966435)>> >>

Table_2024_07_14 ==
    << <<"ibtc", Rat(246929, 1866435)>>, <<"ieth", Rat(150489, 1866435)>>,
       <<"iusd", Rat(1469017, 1866435)>> >>

Table_2023_11_06 ==
    << <<"ibtc", Rat(3668, 22431)>>, <<"ieth", Rat(3188, 22431)>>,
       <<"iusd", Rat(15574, 22431)>> >>

\* _validate_keys letting every combination of key sets through.
validate_keys_raises_never(saturations, market_caps, volatilities, with_vol) == FALSE

validate_keys_raises(saturations, market_caps, volatilities, with_vol) ==
    IF with_vol
    THEN \/ DOMAIN saturations # DOMAIN market_caps
         \/ DOMAIN market_caps # DOMAIN volatilities
         \/ DOMAIN saturations # DOMAIN volatilities
    ELSE DOMAIN saturations # DOMAIN market_caps

get_vol_inverse_sum(volatilities, has_stakers) ==
    IF \E a \in DOMAIN volatilities : RLe(volatilities[a], Zero)
    THEN Raised
    ELSE Returned(RSum([a \in DOMAIN volatilities |-> RDiv(One, volatilities[a])],
                       DOMAIN volatilities \cap has_stakers))

get_sat_inverse_sum(saturations, has_stakers, new_iassets) ==
    IF \E a \in DOMAIN saturations :
          \/ RLt(saturations[a], Zero)
          \/ RLt(One, saturations[a])
          \/ (a \notin new_iassets /\ a \in has_stakers /\ saturations[a] = Zero)
    THEN Raised
    ELSE LET counted == {a \in DOMAIN saturations :
                            a \notin new_iassets /\ a \in has_stakers}
         IN  Returned(RSum([a \in counted |-> RDiv(One, saturations[a])], counted))

\* The sum without the check of each market cap.
get_mcap_sum_unchecked(market_caps, new_iassets) ==
    Returned(RSum(market_caps, DOMAIN market_caps \ new_iassets))

get_mcap_sum(market_caps, new_iassets) ==
    IF \E a \in DOMAIN market_caps : RLe(market_caps[a], Zero)
    THEN Raised
    ELSE Returned(RSum(market_caps, DOMAIN market_caps \ new_iassets))

get_volatility_term(iasset, volatilities, has_stakers) ==
    LET vol_inverse_sum == get_vol_inverse_sum(volatilities, has_stakers)
    IN  IF vol_inverse_sum.raised THEN Raised
        ELSE IF RLt(Zero, vol_inverse_sum.val) /\ iasset \in has_stakers
        THEN IF iasset \notin DOMAIN volatilities THEN Raised   \* KeyError
             ELSE Returned(RDiv(RDiv(One, volatilities[iasset]), vol_inverse_sum.val))
        ELSE Returned(Zero)

first_no_volatility_day == Date(2023, 5, 26)

\* The mean of the terms that are not zero, where statistics.mean divides by
\* the length of the tuple.
mean_of_nonzero(a, b, c) ==
    LET n == Cardinality({i \in 1..3 : <<a, b, c>>[i] # Zero})
    IN  IF n = 0 THEN Zero ELSE RDiv(RAdd(RAdd(a, b), c), <<n, 1>>)

\* statistics.mean of a tuple of terms
Mean2(a, b) == RDiv(RAdd(a, b), <<2, 1>>)
Mean3(a, b, c) == RDiv(RAdd(RAdd(a, b), c), <<3, 1>>)

\* use_volatility decided by the day alone.
use_volatility_by_day_alone(day, new_iassets, sat_inverse_sum, mcap_sum) ==
    day < first_no_volatility_day

use_volatility(day, new_iassets, sat_inverse_sum, mcap_sum) ==
    \/ day < first_no_volatility_day
    \/ Cardinality(new_iassets) > 0
    \/ RLe(sat_inverse_sum, Zero)
    \/ RLe(mcap_sum, Zero)

\* What a call of _calculate_weight comes to: whether it raised, the weight
\* returned, and whether it called volatility.get_all_volatilities.
WeightRaised(fetched) == [raised |-> TRUE, val |-> <<>>, fetched |-> fetched]
WeightReturned(v, fetched) == [raised |-> FALSE, val |-> v, fetched |-> fetched]

calculate_weight(iasset, saturations, day, market_caps, new_iassets, has_stakers, fetched_volatilities) ==
    LET sat_inverse_sum == get_sat_inverse_sum(saturations, has_stakers, new_iassets)
        mcap_sum == get_mcap_sum(market_caps, new_iassets)
        in_basis == iasset \notin new_iassets /\ iasset \in has_stakers
        saturation_term ==
            IF in_basis
            THEN RDiv(RDiv(One, saturations[iasset]), sat_inverse_sum.val)
            ELSE Zero
        market_cap_term ==
            IF in_basis THEN RDiv(market_caps[iasset], mcap_sum.val) ELSE Zero
        \* saturations[iasset], market_caps[iasset]: KeyError
        key_error == in_basis /\ (iasset \notin DOMAIN saturations
                                    \/ iasset \notin DOMAIN market_caps)
        with_volatility == use_volatility(day, new_iassets, sat_inverse_sum.val, mcap_sum.val)
        volatility_term == get_volatility_term(iasset, fetched_volatilities, has_stakers)
    IN  IF sat_inverse_sum.raised \/ mcap_sum.raised THEN WeightRaised(FALSE)
        ELSE IF key_error THEN WeightRaised(FALSE)
        ELSE IF with_volatility /\ volatility_term.raised THEN WeightRaised(TRUE)
        ELSE IF validate_keys_raises(saturations, market_caps, fetched_volatilities,
                                     with_volatility) THEN WeightRaised(with_volatility)
        ELSE IF RLt(Zero, sat_inverse_sum.val) /\ RLt(Zero, mcap_sum.val)
        THEN IF with_volatility
             THEN IF RLe(volatility_term.val, Zero) THEN WeightRaised(TRUE)
                  ELSE WeightReturned(Mean3(volatility_term.val, saturation_term,
                                            market_cap_term), TRUE)
             ELSE WeightReturned(Mean2(saturation_term, market_cap_term), FALSE)
        ELSE IF iasset \in new_iassets
        THEN IF with_volatility /\ RLt(Zero, volatility_term.val)   \* not None and > 0
             THEN WeightReturned(volatility_term.val, with_volatility)
             ELSE WeightRaised(with_volatility)
        ELSE WeightRaised(with_volatility)

get_pool_weights_before_epoch_448(saturations, market_caps, day, new_iassets, has_stakers, fetched_volatilities) ==
    LET weight(iasset) ==
            IF iasset \notin has_stakers THEN Returned(Zero)
            ELSE calculate_weight(iasset, saturations, day, market_caps,
                                  new_iassets, has_stakers, fetched_volatilities)
        weights == [a \in DOMAIN saturations |-> weight(a).val]
    IN  IF \E a \in DOMAIN saturations : weight(a).raised THEN Raised
        \* "Zero weight for ..."
        ELSE IF \E a \in DOMAIN saturations \cap has_stakers : weights[a] = Zero
        THEN Raised
        \* "Sum of weights is not 1"
        ELSE IF FarFromOne(RSum(weights, DOMAIN saturations)) THEN Raised
        ELSE Returned(weights)

get_pool_weights(saturations, market_caps, day, new_iassets, has_stakers, fetched_volatilities) ==
    IF day >= Date(2024, 12, 5) THEN DictFromStr(Table_2024_12_05)
    ELSE IF day >= Date(2024, 11, 26) THEN DictFromStr(Table_2024_11_26)
    ELSE IF day >= Date(2024, 7, 14) THEN DictFromStr(Table_2024_07_14)
    ELSE IF day >= Date(2023, 11, 6) THEN DictFromStr(Table_2023_11_06)
    ELSE get_pool_weights_before_epoch_448(saturations, market_caps, day,
                                           new_iassets, has_stakers,
                                           fetched_volatilities)

\* The inputs the call is tried on: the last day before and the first day
\* from each date the code compares with, and small dicts over two assets.
CutoffDays ==
    {Date(2023, 5, 26), Date(2023, 11, 6), Date(2024, 7, 14), Date(2024, 11, 26),
     Date(2024, 12, 5)}
WeightDays == UNION {{c - 1, c} : c \in CutoffDays}
InputAssets == {"iUSD", "iBTC"}
SatValues == {Zero, Rat(1, 2), One, Rat(3, 2)}
McapValues == {Zero, One, <<3, 1>>}
VolValues == {Zero, One, <<2, 1>>}

PartialMaps(K, V) == UNION {[S -> V] : S \in SUBSET K}

IdleWeights ==
    /\ w_day = 0
    /\ w_sat = <<>>
    /\ w_mcap = <<>>
    /\ w_new = {}
    /\ w_hs = {}
    /\ w_vol = <<>>
    /\ w_status = "idle"
    /\ w_ret = <<>>

InputsWeights ==
    /\ w_day \in WeightDays
    /\ w_sat \in PartialMaps(InputAssets, SatValues)
    /\ w_mcap \in PartialMaps(InputAssets, McapValues)
    /\ w_new \in SUBSET InputAssets
    /\ w_hs \in SUBSET InputAssets
    /\ w_vol \in PartialMaps(InputAssets, VolValues)
    /\ w_status = "idle"
    /\ w_ret = <<>>

GetPoolWeightsCall ==
    /\ w_status = "idle"
    /\ LET r == get_pool_weights(w_sat, w_mcap, w_day, w_new, w_hs, w_vol)
       IN  /\ w_status' = IF r.raised THEN "raise" ELSE "return"
           /\ w_ret' = r.val
    /\ UNCHANGED <<w_day, w_sat, w_mcap, w_new, w_hs, w_vol>>
    /\ UNCHANGED exceptWeights

NextWeights == GetPoolWeightsCall

\* _calculate_weight on its own: the days around first_no_volatility_day,
\* and the dicts and sets that get_pool_weights is tried on.
AssetWeightDays == {first_no_volatility_day - 1, first_no_volatility_day}

IdleAssetWeight ==
    /\ v_iasset = ""
    /\ v_sat = <<>>
    /\ v_day = 0
    /\ v_mcap = <<>>
    /\ v_new = {}
    /\ v_hs = {}
    /\ v_vol = <<>>
    /\ v_status = "idle"
    /\ v_fetched = FALSE
    /\ v_ret = Zero

InputsAssetWeight ==
    /\ v_iasset \in InputAssets
    /\ v_sat \in PartialMaps(InputAssets, SatValues)
    /\ v_day \in AssetWeightDays
    /\ v_mcap \in PartialMaps(InputAssets, McapValues)
    /\ v_new \in SUBSET InputAssets
    /\ v_hs \in SUBSET InputAssets
    /\ v_vol \in PartialMaps(InputAssets, VolValues)
    /\ v_status = "idle"
    /\ v_fetched = FALSE
    /\ v_ret = Zero

\* _calculate_weight(iasset, saturations, day, market_caps, new_iassets, has_stakers)
CalculateWeightCall ==
    /\ v_status = "idle"
    /\ \E r \in {calculate_weight(v_iasset, v_sat, v_day, v_mcap, v_new, v_hs, v_vol)} :
          /\ v_status' = IF r.raised THEN "raise" ELSE "return"
          /\ v_fetched' = r.fetched
          /\ v_ret' = IF r.raised THEN Zero ELSE r.val
    /\ UNCHANGED <<v_iasset, v_sat, v_day, v_mcap, v_new, v_hs, v_vol>>
    /\ UNCHANGED exceptAssetWeight

NextAssetWeight == CalculateWeightCall

---------------------------------------------------------------------------
(* lp/distribution.py: _calculate_k *)

calculate_k(a, b, c, d) ==
    LET assets == DOMAIN b
        m_values == [asset \in assets |-> RDiv(One, b[asset])]
        m_sum == RSum(m_values, assets)
        m_normalized == [asset \in assets |-> RDiv(m_values[asset], m_sum)]
        o_values == [asset \in assets |-> RMul(c[asset], d[asset])]
        o_sum == RSum(o_values, assets)
        o_normalized == [asset \in assets |-> RDiv(o_values[asset], o_sum)]
        k_values ==
            [asset \in assets |->
                RMul(RDiv(a, <<5, 1>>),
                     RDiv(RAdd(m_normalized[asset], o_normalized[asset]), <<2, 1>>))]
    IN  \* '"k" formula input dict key mismatch'
        IF DOMAIN b # DOMAIN c \/ DOMAIN c # DOMAIN d \/ DOMAIN b # DOMAIN d
        THEN Raised
        \* 1 / b[asset]: ZeroDivisionError
        ELSE IF \E asset \in assets : b[asset] = Zero THEN Raised
        \* m_value / m_sum, o_value / o_sum: ZeroDivisionError
        ELSE IF assets # {} /\ (m_sum = Zero \/ o_sum = Zero) THEN Raised
        ELSE Returned(k_values)

\* The inputs the call is tried on: the example of the docstring and, asset
\* by asset, a few other values.
ExampleBudget == <<4795, 1>>
ExampleSaturations ==
    [asset \in IAsset |-> CASE asset = "iUSD" -> Rat(6, 10)
                            [] asset = "iETH" -> Rat(7, 10)
                            [] asset = "iBTC" -> Rat(8, 10)]
ExamplePrices ==
    [asset \in IAsset |-> CASE asset = "iBTC" -> <<60000, 1>>
                            [] asset = "iUSD" -> Rat(27, 10)
                            [] asset = "iETH" -> <<4000, 1>>]
ExampleSupplies ==
    [asset \in IAsset |-> CASE asset = "iETH" -> <<1200, 1>>
                            [] asset = "iUSD" -> <<4000000, 1>>
                            [] asset = "iBTC" -> <<80, 1>>]

\* The dicts over a set S of assets whose value for each asset is one of few[asset]
DictsOver(few) ==
    UNION {{f \in [S -> UNION {few[asset] : asset \in S}] :
                \A asset \in S : f[asset] \in few[asset]} : S \in SUBSET IAsset}

KSaturations == [asset \in IAsset |-> {Zero, Rat(1, 2), ExampleSaturations[asset]}]
KPrices == [asset \in IAsset |-> {ExamplePrices[asset], RMul(<<2, 1>>, ExamplePrices[asset])}]
KSupplies == [asset \in IAsset |-> {Zero, ExampleSupplies[asset]}]

IdleK ==
    /\ k_a = Zero
    /\ k_b = <<>>
    /\ k_c = <<>>
    /\ k_d = <<>>
    /\ k_status = "idle"
    /\ k_ret = <<>>

InputsK ==
    /\ k_a \in {ExampleBudget, <<5, 1>>}
    /\ k_b \in DictsOver(KSaturations)
    /\ k_c \in DictsOver(KPrices)
    /\ k_d \in DictsOver(KSupplies)
    /\ k_status = "idle"
    /\ k_ret = <<>>

CalculateKCall ==
    /\ k_status = "idle"
    /\ LET r == calculate_k(k_a, k_b, k_c, k_d)
       IN  /\ k_status' = IF r.raised THEN "raise" ELSE "return"
           /\ k_ret' = r.val
    /\ UNCHANGED <<k_a, k_b, k_c, k_d>>
    /\ UNCHANGED exceptK

NextK == CalculateKCall

---------------------------------------------------------------------------
(* models.py: IndividualReward;  sp/distribution.py: _pro_rata_distribute *)

IndividualReward(indy, day, pkh, expiration, description) ==
    [indy |-> indy, day |-> day, pkh |-> pkh, expiration |-> expiration, description |-> description]

\* BaseReward.get_indy_lovelaces: round(indy * 1_000_000), for indy >= 0
\* and to the even neighbour at a tie, as the pair <<whole INDY, lovelaces
\* below one INDY>> of the integer whole * 1_000_000 + below.
LovelacesPerIndy == 1000000

get_indy_lovelaces(indy) ==
    LET whole == indy[1] \div indy[2]
        scaled == (indy[1] % indy[2]) * LovelacesPerIndy
        below == scaled \div indy[2]
        twice == 2 * (scaled % indy[2])
        rounded == IF twice > indy[2] \/ (twice = indy[2] /\ below % 2 = 1)
                   THEN below + 1 ELSE below
    IN  IF rounded = LovelacesPerIndy THEN <<whole + 1, 0>> ELSE <<whole, rounded>>

\* sum(map(lambda x: x.get_indy_lovelaces(), rewards)), as such a pair
RECURSIVE SumLovelaces(_)
SumLovelaces(rewards) ==
    IF rewards = <<>> THEN <<0, 0>>
    ELSE LET first == get_indy_lovelaces(Head(rewards).indy)
             rest == SumLovelaces(Tail(rewards))
             below == first[2] + rest[2]
         IN  <<first[1] + rest[1] + below \div LovelacesPerIndy, below % LovelacesPerIndy>>

\* The keys of a dict in the order the dict iterates over them
RECURSIVE KeysOf(_)
KeysOf(S) ==
    IF S = {} THEN <<>>
    ELSE LET k == CHOOSE x \in S : TRUE IN <<k>> \o KeysOf(S \ {k})

\* sum(x.indy for x in rewards)
RECURSIVE SumIndy(_)
SumIndy(rewards) ==
    IF rewards = <<>> THEN Zero
    ELSE RAdd(Head(rewards).indy, SumIndy(Tail(rewards)))

pro_rata_distribute_unscaled(indy_to_distribute, accounts, day, comment) ==
    LET total == RSum(accounts, DOMAIN accounts)
        owners == KeysOf(DOMAIN accounts)
    IN  IF owners # <<>> /\ total = Zero THEN Raised
        ELSE Returned([i \in 1..Len(owners) |->
                IndividualReward(RDiv(accounts[owners[i]], total),
                                 day, owners[i], get_reward_expiration(day), comment)])

pro_rata_distribute(indy_to_distribute, accounts, day, comment) ==
    LET total == RSum(accounts, DOMAIN accounts)
        owners == KeysOf(DOMAIN accounts)
    IN  \* weight / total: ZeroDivisionError
        IF owners # <<>> /\ total = Zero THEN Raised
        ELSE Returned([i \in 1..Len(owners) |->
                IndividualReward(RMul(RDiv(accounts[owners[i]], total), indy_to_distribute),
                                 day, owners[i], get_reward_expiration(day), comment)])

Owners == {"A", "B", "C"}
Weights == {Zero, One, <<3, 1>>}
ProRataBudgets == {Zero, <<7, 1>>, <<100, 1>>}
ProRataDays == {Date(2023, 3, 21), Date(2023, 3, 22)}
ProRataComment == <<"SP reward for", "iUSD">>

IdleProRata ==
    /\ p_indy = Zero
    /\ p_accounts = <<>>
    /\ p_day = ref_date
    /\ p_status = "idle"
    /\ p_ret = <<>>

\* The one caller, get_rewards_per_staker, passes the accounts of a pool only
\* after _check_each_iasset_has_stakers, which raises for a pool that has
\* INDY to distribute and no account: an empty dict comes with 0 INDY.
InputsProRata ==
    /\ p_indy \in ProRataBudgets
    /\ p_accounts \in PartialMaps(Owners, Weights)
    /\ (p_accounts = <<>>) => (p_indy = Zero)
    /\ p_day \in ProRataDays
    /\ p_status = "idle"
    /\ p_ret = <<>>

ProRataDistributeCall ==
    /\ p_status = "idle"
    /\ LET r == pro_rata_distribute(p_indy, p_accounts, p_day, ProRataComment)
       IN  /\ p_status' = IF r.raised THEN "raise" ELSE "return"
           /\ p_ret' = r.val
    /\ UNCHANGED <<p_indy, p_accounts, p_day>>
    /\ UNCHANGED exceptProRata

NextProRata == ProRataDistributeCall

---------------------------------------------------------------------------
(* models.py: the liquidity pool records;  lp/saturation.py;
   lp/distribution.py: the rewards of a day *)

LiquidityPool(dex, iasset, other_asset_name, lp_token_id) ==
    [dex |-> dex, iasset |-> iasset, other_asset_name |-> other_asset_name, lp_token_id |-> lp_token_id]

LiquidityPoolStatus(lp, iasset_balance) ==
    [lp |-> lp, iasset_balance |-> iasset_balance]

IAssetReward(indy, day, iasset) ==
    [indy |-> indy, day |-> day, iasset |-> iasset]

LiquidityPoolReward(indy, day, lp) ==
    [indy |-> indy, day |-> day, lp |-> lp]

\* sum(xs) of a list of floats
RECURSIVE RSumSeq(_)
RSumSeq(xs) ==
    IF xs = <<>> THEN Zero ELSE RAdd(Head(xs), RSumSeq(Tail(xs)))

\* The statuses of the pools of one iAsset, in the order of the list
OfIAsset(lp_statuses, iasset) ==
    SelectSeq(lp_statuses, LAMBDA st : st.lp.iasset = iasset)

sum_iasset(iasset, lp_statuses) ==
    LET group == OfIAsset(lp_statuses, iasset)
    IN  RSumSeq([i \in 1..Len(group) |-> group[i].iasset_balance])

sum_by_iasset(lp_statuses) ==
    IF \E i \in 1..Len(lp_statuses) : lp_statuses[i].lp.other_asset_name # "ADA"
    THEN Raised
    ELSE Returned([iasset \in {lp_statuses[i].lp.iasset : i \in 1..Len(lp_statuses)} |->
                        sum_iasset(iasset, lp_statuses)])

calculate_saturation_ratios(dex_balances, total_supplies) ==
    IF DOMAIN dex_balances # DOMAIN total_supplies THEN Raised
    \* dex_balances[key] / total_supplies[key]: ZeroDivisionError
    ELSE IF \E key \in DOMAIN dex_balances : total_supplies[key] = Zero THEN Raised
    ELSE Returned([key \in DOMAIN dex_balances |->
                        RDiv(dex_balances[key], total_supplies[key])])

get_saturations(unified_dex_info, total_supplies) ==
    LET dex_balances == sum_by_iasset(unified_dex_info)
    IN  IF dex_balances.raised THEN Raised
        ELSE calculate_saturation_ratios(dex_balances.val, total_supplies)

get_iassets_daily_indy(day, epoch_indy, prices, total_supplies, lp_status) ==
    LET dex_saturations == get_saturations(lp_status, total_supplies)
        iasset_indy == calculate_k(epoch_indy, dex_saturations.val, prices, total_supplies)
        keys == KeysOf(DOMAIN iasset_indy.val)
    IN  IF dex_saturations.raised THEN Raised
        ELSE IF iasset_indy.raised THEN Raised
        ELSE Returned([i \in 1..Len(keys) |->
                        IAssetReward(iasset_indy.val[keys[i]], day, keys[i])])

distribute_to_iasset_group_evenly(iasset_reward, lp_statuses, day) ==
    LET group == OfIAsset(lp_statuses, iasset_reward.iasset)
    IN  Returned([i \in 1..Len(group) |->
            LiquidityPoolReward(RDiv(iasset_reward.indy, <<Len(group), 1>>), day, group[i].lp)])

distribute_to_iasset_group(iasset_reward, lp_statuses, day) ==
    LET total_iasset_balance == sum_iasset(iasset_reward.iasset, lp_statuses)
        group == OfIAsset(lp_statuses, iasset_reward.iasset)
    IN  \* stat.iasset_balance / total_iasset_balance: ZeroDivisionError
        IF group # <<>> /\ total_iasset_balance = Zero THEN Raised
        ELSE Returned([i \in 1..Len(group) |->
                LiquidityPoolReward(
                    RMul(iasset_reward.indy, RDiv(group[i].iasset_balance, total_iasset_balance)),
                    day, group[i].lp)])

RECURSIVE distribute_to_liquidity_pools(_, _, _)
distribute_to_liquidity_pools(iasset_rewards, lp_statuses, day) ==
    IF iasset_rewards = <<>> THEN Returned(<<>>)
    ELSE LET first == distribute_to_iasset_group(Head(iasset_rewards), lp_statuses, day)
             rest == distribute_to_liquidity_pools(Tail(iasset_rewards), lp_statuses, day)
         IN  IF first.raised \/ rest.raised THEN Raised
             ELSE Returned(first.val \o rest.val)

\* staker_info[lp] of the defaultdict(dict)
StakersOf(staker_info, lp) ==
    IF lp \in DOMAIN staker_info THEN staker_info[lp] ELSE <<>>

LpDescription(lp) == <<"Reward for providing", lp.iasset, "liquidity on", lp.dex>>

\* The body of the loop of distribute_to_accounts, for one pool reward
rewards_of_pool(pr, staker_info) ==
    LET stakers == StakersOf(staker_info, pr.lp)
        total_staked_lp_tokens == RSum(stakers, DOMAIN stakers)
        keys == KeysOf(DOMAIN stakers)
    IN  \* ... / total_staked_lp_tokens: ZeroDivisionError
        IF keys # <<>> /\ total_staked_lp_tokens = Zero THEN Raised
        ELSE Returned([i \in 1..Len(keys) |->
                IndividualReward(
                    RDiv(RMul(pr.indy, stakers[keys[i]]), total_staked_lp_tokens),
                    pr.day, keys[i], get_reward_expiration(pr.day), LpDescription(pr.lp))])

RECURSIVE rewards_of_pools(_, _)
rewards_of_pools(pool_rewards, staker_info) ==
    IF pool_rewards = <<>> THEN Returned(<<>>)
    ELSE LET first == rewards_of_pool(Head(pool_rewards), staker_info)
             rest == rewards_of_pools(Tail(pool_rewards), staker_info)
         IN  IF first.raised \/ rest.raised THEN Raised
             ELSE Returned(first.val \o rest.val)

distribute_to_accounts(day, iassets_daily_rewards, lp_daily_status, staker_info) ==
    LET pool_rewards == distribute_to_liquidity_pools(iassets_daily_rewards, lp_daily_status, day)
    IN  IF pool_rewards.raised THEN Raised
        ELSE rewards_of_pools(pool_rewards.val, staker_info)

\* The data of a day: three pools, two of them of iUSD; the balance of each
\* listed pool; for each listed pool the LP tokens that accounts have staked
\* (get_account_staked_lp_tokens has an entry only for a listed pool with a
\* staker).
LpPools ==
    { LiquidityPool("Minswap", "iUSD", "ADA", "minswap_iusd_ada"),
      LiquidityPool("WingRiders", "iUSD", "ADA", "wingriders_iusd_ada"),
      LiquidityPool("Minswap", "iBTC", "ADA", "minswap_ibtc_ada") }
LpBalances == {Zero, One, <<3, 1>>}
LpStakers == {"A", "B"}
LpStaked == {One, <<3, 1>>}
LpStakerDicts == PartialMaps(LpStakers, LpStaked) \ {<<>>}
LpEpochIndy == {Zero, <<4795, 1>>}
LpDays == {Date(2023, 3, 22)}
LpPrices == {[iasset \in InputAssets |-> IF iasset = "iUSD" THEN One ELSE <<2, 1>>]}
LpSupplies == PartialMaps(InputAssets, {Zero, <<4, 1>>})

StatusList(balances) ==
    LET lps == KeysOf(DOMAIN balances)
    IN  [i \in 1..Len(lps) |-> LiquidityPoolStatus(lps[i], balances[lps[i]])]

IdleLp ==
    /\ l_day = ref_date
    /\ l_epoch_indy = Zero
    /\ l_prices = <<>>
    /\ l_supplies = <<>>
    /\ l_statuses = <<>>
    /\ l_staker_info = <<>>
    /\ l_status = "idle"
    /\ l_iasset_rewards = <<>>
    /\ l_pools_status = "idle"
    /\ l_pool_rewards = <<>>
    /\ l_rewards = <<>>

InputsLp ==
    /\ l_day \in LpDays
    /\ l_epoch_indy \in LpEpochIndy
    /\ l_prices \in LpPrices
    /\ l_supplies \in LpSupplies
    /\ \E balances \in PartialMaps(LpPools, LpBalances) :
          /\ l_statuses = StatusList(balances)
          /\ l_staker_info \in PartialMaps(DOMAIN balances, LpStakerDicts)
    /\ l_status = "idle"
    /\ l_iasset_rewards = <<>>
    /\ l_pools_status = "idle"
    /\ l_pool_rewards = <<>>
    /\ l_rewards = <<>>

\* lp.get_rewards_per_staker(day, epoch_indy)
LpGetRewardsPerStakerCall ==
    /\ l_status = "idle"
    /\ LET iassets_daily_rewards ==
               get_iassets_daily_indy(l_day, l_epoch_indy, l_prices, l_supplies, l_statuses)
           pool_rewards ==
               distribute_to_liquidity_pools(iassets_daily_rewards.val, l_statuses, l_day)
           individual_rewards ==
               distribute_to_accounts(l_day, iassets_daily_rewards.val, l_statuses, l_staker_info)
       IN  IF iassets_daily_rewards.raised
           THEN /\ l_status' = "raise"
                /\ UNCHANGED <<l_iasset_rewards, l_pools_status, l_pool_rewards, l_rewards>>
           ELSE /\ l_iasset_rewards' = iassets_daily_rewards.val
                /\ l_pools_status' = IF pool_rewards.raised THEN "raise" ELSE "return"
                /\ l_pool_rewards' = pool_rewards.val
                /\ l_status' = IF individual_rewards.raised THEN "raise" ELSE "return"
                /\ l_rewards' = individual_rewards.val
    /\ UNCHANGED lpInputs
    /\ UNCHANGED exceptLp

NextLp == LpGetRewardsPerStakerCall

---------------------------------------------------------------------------
(* config.py;  sp/distribution.py: the rewards of a day *)

IASSET_LAUNCH_DATES ==
    [x \in IAsset |-> CASE x = "iUSD" -> Date(2022, 11, 21)
                        [] x = "iBTC" -> Date(2022, 11, 21)
                        [] x = "iETH" -> Date(2023, 1, 6)]

get_active_iassets(day) == {x \in IAsset : IASSET_LAUNCH_DATES[x] <= day}

get_new_iassets(day) ==
    {x \in IAsset : /\ x \in get_active_iassets(day)
                    /\ date_to_epoch(day) < date_to_epoch(IASSET_LAUNCH_DATES[x]) + 6}

is_at_least_24h_old_without_grace(account, snapshot_day) ==
    IF snapshot_day < Date(2024, 11, 27) /\ account.asset = "iSOL" THEN TRUE
    ELSE account.opened_at <= get_snapshot_unix_time(snapshot_day)

is_at_least_24h_old(account, snapshot_day) ==
    IF snapshot_day < Date(2024, 11, 27) /\ account.asset = "iSOL" THEN TRUE
    ELSE account.opened_at + SecondsPerDay <= get_snapshot_unix_time(snapshot_day)

\* _merge_duplicate_accounts keeping the iasset_staked of the first account
\* of a key instead of adding the later ones to it.
merge_duplicate_accounts_keeping_first(account_balances) ==
    LET same(i, j) == /\ account_balances[i].owner = account_balances[j].owner
                      /\ account_balances[i].asset = account_balances[j].asset
        first_of_key(i) == \A j \in 1..(i - 1) : ~same(i, j)
        keys == {i \in 1..Len(account_balances) : first_of_key(i)}
        nth(n) == CHOOSE i \in keys : Cardinality({k \in keys : k <= i}) = n
    IN  [n \in 1..Cardinality(keys) |->
            [owner |-> account_balances[nth(n)].owner,
             asset |-> account_balances[nth(n)].asset,
             iasset_staked |-> account_balances[nth(n)].iasset_staked]]

\* The list _merge_duplicate_accounts returns: one entry per (owner, asset)
\* key, in the order in which the keys first occur, with the sum of the
\* iasset_staked of the accounts of the key.
merge_duplicate_accounts(account_balances) ==
    LET same(i, j) == /\ account_balances[i].owner = account_balances[j].owner
                      /\ account_balances[i].asset = account_balances[j].asset
        first_of_key(i) == \A j \in 1..(i - 1) : ~same(i, j)
        keys == {i \in 1..Len(account_balances) : first_of_key(i)}
        \* the index in account_balances of the n-th key inserted
        nth(n) == CHOOSE i \in keys : Cardinality({k \in keys : k <= i}) = n
        staked(i) ==
            LET of_key == SelectSeq([j \in 1..Len(account_balances) |-> <<j, account_balances[j]>>],
                                    LAMBDA x : same(i, x[1]))
            IN  RSumSeq([k \in 1..Len(of_key) |-> of_key[k][2].iasset_staked])
    IN  [n \in 1..Cardinality(keys) |->
            [owner |-> account_balances[nth(n)].owner,
             asset |-> account_balances[nth(n)].asset,
             iasset_staked |-> staked(nth(n))]]

get_unique_iassets(accounts) ==
    IF \E i \in 1..Len(accounts) : from_str_raises(accounts[i].asset) THEN Raised
    ELSE Returned({from_str(accounts[i].asset) : i \in 1..Len(accounts)})

\* The return statement of get_rewards_per_pool, given pool_weights.
rewards_of_pool_weights(pool_weights, daily_indy, day) ==
    IF pool_weights.raised THEN Raised
    ELSE LET keys == KeysOf(DOMAIN pool_weights.val)
         IN  Returned([i \in 1..Len(keys) |->
                 IAssetReward(RMul(pool_weights.val[keys[i]], daily_indy), day, keys[i])])

get_rewards_per_pool(day, epoch_indy, iassets_with_stakers, saturations, market_caps, volatilities) ==
    rewards_of_pool_weights(
        get_pool_weights(saturations, market_caps, day, get_new_iassets(day),
                         iassets_with_stakers, volatilities),
        RDiv(epoch_indy, <<5, 1>>), day)

check_each_iasset_has_stakers_raises(stability_pool_rewards, account_balances) ==
    \E i \in 1..Len(stability_pool_rewards) :
        /\ stability_pool_rewards[i].indy # Zero
        /\ ~ \E j \in 1..Len(account_balances) :
                account_balances[j].asset = stability_pool_rewards[i].iasset

check_each_account_has_reward_raises(rewarded_iassets, account_balances) ==
    \E i \in 1..Len(account_balances) :
        \/ from_str_raises(account_balances[i].asset)
        \/ from_str(account_balances[i].asset) \notin rewarded_iassets

\* The dict comprehension {x["owner"]: x["iasset_staked"] for x in ... if ...}:
\* a later entry of the same owner replaces an earlier one.
iasset_accounts_of(eligible_accounts, iasset) ==
    LET matching == SelectSeq(eligible_accounts, LAMBDA x : from_str(x.asset) = iasset)
        last(owner) == CHOOSE i \in 1..Len(matching) :
                            /\ matching[i].owner = owner
                            /\ \A j \in (i + 1)..Len(matching) : matching[j].owner # owner
    IN  [owner \in {matching[i].owner : i \in 1..Len(matching)} |->
            matching[last(owner)].iasset_staked]

SpComment(iasset) == <<"SP reward for", iasset>>

RECURSIVE sp_rewards_of_pools(_, _, _)
sp_rewards_of_pools(rewards_per_pool, eligible_accounts, day) ==
    IF rewards_per_pool = <<>> THEN Returned(<<>>)
    ELSE LET pool_reward == Head(rewards_per_pool)
             first == pro_rata_distribute(pool_reward.indy,
                          iasset_accounts_of(eligible_accounts, pool_reward.iasset),
                          day, SpComment(pool_reward.iasset))
             rest == sp_rewards_of_pools(Tail(rewards_per_pool), eligible_accounts, day)
         IN  IF first.raised \/ rest.raised THEN Raised
             ELSE Returned(first.val \o rest.val)

filter_eligible(all_accounts, day) ==
    SelectSeq(all_accounts, LAMBDA x : is_at_least_24h_old(x, day))

\* get_rewards_per_staker from the length check on: rewards is the list built
\* by the loop over rewards_per_pool.
\* "Accounts from API: ..., but reward items: ..."
check_reward_count(rewards, eligible_accounts) ==
    IF rewards.raised THEN Raised
    ELSE IF Len(rewards.val) # Len(eligible_accounts) THEN Raised
    ELSE Returned(rewards.val)

\* get_rewards_per_staker from _check_each_iasset_has_stakers on.
distribute_rewards_per_pool(rewards_per_pool, eligible_accounts, all_accounts, day) ==
    IF rewards_per_pool.raised THEN Raised
    ELSE IF check_each_iasset_has_stakers_raises(rewards_per_pool.val, eligible_accounts)
    THEN Raised
    ELSE IF check_each_account_has_reward_raises(
                {rewards_per_pool.val[i].iasset : i \in 1..Len(rewards_per_pool.val)},
                all_accounts)
    THEN Raised
    ELSE check_reward_count(
             sp_rewards_of_pools(rewards_per_pool.val, eligible_accounts, day),
             eligible_accounts)

\* get_rewards_per_staker from get_rewards_per_pool on.
rewards_of_iassets_with_stakers(iassets_with_stakers, eligible_accounts, day, epoch_indy, all_accounts, saturations, market_caps, volatilities) ==
    IF iassets_with_stakers.raised THEN Raised
    ELSE distribute_rewards_per_pool(
             get_rewards_per_pool(day, epoch_indy, iassets_with_stakers.val,
                                  saturations, market_caps, volatilities),
             eligible_accounts, all_accounts, day)

\* get_rewards_per_staker from get_unique_iassets on.
rewards_of_eligible_accounts(eligible_accounts, day, epoch_indy, all_accounts, saturations, market_caps, volatilities) ==
    rewards_of_iassets_with_stakers(get_unique_iassets(eligible_accounts),
                                    eligible_accounts, day, epoch_indy, all_accounts,
                                    saturations, market_caps, volatilities)

sp_get_rewards_per_staker(day, epoch_indy, all_accounts, saturations, market_caps, volatilities) ==
    rewards_of_eligible_accounts(
        merge_duplicate_accounts(filter_eligible(all_accounts, day)),
        day, epoch_indy, all_accounts, saturations, market_caps, volatilities)

\* The data of a day: the stability pool accounts (those of owner A hold 1
\* iAsset each, those of owner B 3), each opened exactly 24 hours before the
\* snapshot of the day or one second later, and one set of
\* saturations, market caps and volatilities of the iAssets active on the day.
MaxAccounts == 3
SpOwners == {"A", "B"}
SpAssetNames == {"iUSD", "iBTC", "iETH", "iSOL"}
SpStaked == [owner \in SpOwners |-> IF owner = "A" THEN One ELSE <<3, 1>>]
SpOpenedAt(day) ==
    {get_snapshot_unix_time(day) - SecondsPerDay, get_snapshot_unix_time(day) - SecondsPerDay + 1}
SpAccounts(day) ==
    {[owner |-> owner, asset |-> asset, iasset_staked |-> SpStaked[owner], opened_at |-> opened_at] :
        owner \in SpOwners, asset \in SpAssetNames, opened_at \in SpOpenedAt(day)}
SpDays ==
    {Date(2022, 11, 27), Date(2023, 1, 5), Date(2024, 11, 25), Date(2024, 11, 26),
     Date(2024, 11, 27)}
SpEpochIndy == {Zero, <<5, 1>>}
SpSaturations(day) == [x \in get_active_iassets(day) |-> IF x = "iETH" THEN One ELSE Rat(1, 2)]
SpMarketCaps(day) == [x \in get_active_iassets(day) |-> IF x = "iUSD" THEN <<3, 1>> ELSE One]
SpVolatilities(day) == [x \in get_active_iassets(day) |-> One]

IdleSp ==
    /\ s_day = ref_date
    /\ s_epoch_indy = Zero
    /\ s_all_accounts = <<>>
    /\ s_status = "idle"
    /\ s_eligible = <<>>
    /\ s_rewards_per_pool = <<>>
    /\ s_rewards = <<>>

InputsSp ==
    /\ s_day \in SpDays
    /\ s_epoch_indy \in SpEpochIndy
    /\ s_all_accounts \in UNION {[1..n -> SpAccounts(s_day)] : n \in 0..MaxAccounts}
    /\ s_status = "idle"
    /\ s_eligible = <<>>
    /\ s_rewards_per_pool = <<>>
    /\ s_rewards = <<>>

\* sp.get_rewards_per_staker(day, epoch_indy)
SpGetRewardsPerStakerCall ==
    /\ s_status = "idle"
    /\ s_eligible' = filter_eligible(s_all_accounts, s_day)
    /\ \E iassets_with_stakers \in
              {get_unique_iassets(merge_duplicate_accounts(
                   filter_eligible(s_all_accounts, s_day)))} :
          s_rewards_per_pool' =
              IF iassets_with_stakers.raised THEN <<>>
              ELSE get_rewards_per_pool(s_day, s_epoch_indy, iassets_with_stakers.val,
                                        SpSaturations(s_day), SpMarketCaps(s_day),
                                        SpVolatilities(s_day)).val
    /\ \E rewards \in {sp_get_rewards_per_staker(s_day, s_epoch_indy, s_all_accounts,
                                                 SpSaturations(s_day), SpMarketCaps(s_day),
                                                 SpVolatilities(s_day))} :
          /\ s_status' = IF rewards.raised THEN "raise" ELSE "return"
          /\ s_rewards' = rewards.val
    /\ UNCHANGED spInputs
    /\ UNCHANGED exceptSp

NextSp == SpGetRewardsPerStakerCall

\* sp_epoch_emission(epoch), in hundredths of an INDY
sp_epoch_emission(epoch) ==
    IF epoch >= 526 THEN 2118977
    ELSE IF epoch >= 524 THEN 1966435
    ELSE IF epoch >= 497 THEN 1866435
    ELSE IF epoch >= 447 THEN 2243100
    ELSE 2876800

\* The pool weights of the snapshot days of an epoch, one call of
\* get_pool_weights per day as get_epoch_rewards_per_staker makes them, on
\* the data of the day: every active iAsset staked, saturation 1/2, market
\* caps 3 and 1, volatility 1.
RuleEpochs == 410..530

RuleSaturations(day) == [x \in get_active_iassets(day) |-> Rat(1, 2)]
RuleMarketCaps(day) == [x \in get_active_iassets(day) |-> IF x = "iUSD" THEN <<3, 1>> ELSE One]
RuleVolatilities(day) == [x \in get_active_iassets(day) |-> One]

pool_weights_of_day(day) ==
    get_pool_weights(RuleSaturations(day), RuleMarketCaps(day), day,
                     get_new_iassets(day), get_active_iassets(day),
                     RuleVolatilities(day))

IdleRule ==
    /\ r_epoch = 0
    /\ r_emission = 0
    /\ r_weights = <<>>
    /\ r_status = "idle"

PoolWeightsOfEpochCall(epoch) ==
    /\ r_status = "idle"
    /\ r_epoch' = epoch
    /\ r_emission' = sp_epoch_emission(epoch)
    /\ \E dates \in {get_epoch_snapshot_dates(epoch)} :
          r_weights' = [i \in 1..5 |-> pool_weights_of_day(dates[i])]
    /\ r_status' = "done"
    /\ UNCHANGED exceptRule

NextRule == \E epoch \in RuleEpochs : PoolWeightsOfEpochCall(epoch)

---------------------------------------------------------------------------
(* sp/apr.py, lp/apr.py: the APR of a day and of an epoch *)

\* statistics.mean(aprs) taken as sum / 5 whatever the length of the list
average_aprs_over_five(daily_aprs) ==
    [pool \in DOMAIN daily_aprs |-> RDiv(RSumSeq(daily_aprs[pool]), <<5, 1>>)]

\* statistics.mean(aprs) if aprs else 0, for each pool
_average_aprs(daily_aprs) ==
    [pool \in DOMAIN daily_aprs |->
        IF daily_aprs[pool] # <<>>
        THEN RDiv(RSumSeq(daily_aprs[pool]), <<Len(daily_aprs[pool]), 1>>)
        ELSE Zero]

\* daily_aprs[pool].append(apr) for each item of a day, on a defaultdict(list)
append_daily(daily_aprs, daily) ==
    [pool \in DOMAIN daily_aprs \cup DOMAIN daily |->
        IF pool \in DOMAIN daily
        THEN Append(IF pool \in DOMAIN daily_aprs THEN daily_aprs[pool] ELSE <<>>, daily[pool])
        ELSE daily_aprs[pool]]

\* (c * d) / (a * b) * 365 of sp.get_apr
get_apr(day, iasset, iasset_ada_prices, indy_prices, sp_supplies, sp_rewards) ==
    LET matching_rewards == SelectSeq(sp_rewards, LAMBDA r : r.iasset = iasset)
    IN  \* sp_supplies[iasset], iasset_ada_prices[iasset]: KeyError
        IF iasset \notin DOMAIN sp_supplies \/ iasset \notin DOMAIN iasset_ada_prices
        THEN Raised
        ELSE IF Len(matching_rewards) # 1 THEN Raised
        \* indy_prices[day]: KeyError
        ELSE IF day \notin DOMAIN indy_prices THEN Raised
        \* ... / (a * b): ZeroDivisionError
        ELSE IF RMul(sp_supplies[iasset], iasset_ada_prices[iasset]) = Zero THEN Raised
        ELSE Returned(RMul(RDiv(RMul(matching_rewards[1].indy, indy_prices[day]),
                                RMul(sp_supplies[iasset], iasset_ada_prices[iasset])),
                           <<365, 1>>))

\* The loop of sp.get_daily_aprs over iassets, given sp_rewards
sp_aprs_of(day, iassets, iasset_ada_prices, indy_prices, sp_supplies, sp_rewards) ==
    IF sp_rewards.raised THEN Raised
    ELSE IF \E x \in iassets :
                get_apr(day, x, iasset_ada_prices, indy_prices, sp_supplies, sp_rewards.val).raised
    THEN Raised
    ELSE Returned([x \in iassets |->
            get_apr(day, x, iasset_ada_prices, indy_prices, sp_supplies, sp_rewards.val).val])

\* sp.get_daily_aprs; nobody is eligible on the day an iAsset is launched
get_daily_aprs(day, epoch_indy, indy_prices, iasset_ada_prices, sp_supplies, saturations, market_caps, volatilities) ==
    sp_aprs_of(day, {x \in get_active_iassets(day) : day # IASSET_LAUNCH_DATES[x]},
               iasset_ada_prices, indy_prices, sp_supplies,
               get_rewards_per_pool(day, epoch_indy,
                   {x \in get_active_iassets(day) : day # IASSET_LAUNCH_DATES[x]},
                   saturations, market_caps, volatilities))

LiquidityPoolStatusWithSupplies(lp, iasset_balance, lp_token_circ_supply, lp_token_staked) ==
    [lp |-> lp, iasset_balance |-> iasset_balance,
     lp_token_circ_supply |-> lp_token_circ_supply, lp_token_staked |-> lp_token_staked]

\* A supply field that is None
None == <<>>

\* (c * d) / (2 * a * b) * 365 of lp.get_lp_daily_apr,
\* a = iasset_balance * (lp_token_staked / lp_token_circ_supply)
get_lp_daily_apr(day, stat, iasset_ada_prices, lp_indy_reward, indy_prices) ==
    \* "LP token supply information not set"
    IF stat.lp_token_staked = None \/ stat.lp_token_circ_supply = None THEN Raised
    \* lp_token_staked / lp_token_circ_supply: ZeroDivisionError
    ELSE IF stat.lp_token_circ_supply = Zero THEN Raised
    \* iasset_ada_prices[stat.lp.iasset], indy_prices[day]: KeyError
    ELSE IF stat.lp.iasset \notin DOMAIN iasset_ada_prices \/ day \notin DOMAIN indy_prices
    THEN Raised
    \* ... / (2 * a * b): ZeroDivisionError
    ELSE IF stat.iasset_balance = Zero \/ stat.lp_token_staked = Zero
            \/ iasset_ada_prices[stat.lp.iasset] = Zero
    THEN Raised
    ELSE Returned(RMul(
            RDiv(RMul(lp_indy_reward.indy, indy_prices[day]),
                 RMul(RMul(<<2, 1>>,
                           RMul(stat.iasset_balance,
                                RDiv(stat.lp_token_staked, stat.lp_token_circ_supply))),
                      iasset_ada_prices[stat.lp.iasset])),
            <<365, 1>>))

\* The APR of one lp_status of the day, given lp_rewards
lp_apr_of_status(day, lp_status, iasset_ada_prices, lp_rewards, indy_prices) ==
    LET pool_rewards == SelectSeq(lp_rewards, LAMBDA x : x.lp = lp_status.lp)
    IN  \* "Expected to find exactly 1 LP reward entry"
        IF Len(pool_rewards) # 1 THEN Raised
        ELSE get_lp_daily_apr(day, lp_status, iasset_ada_prices, pool_rewards[1], indy_prices)

\* The inner loop of lp.get_epoch_aprs over lp_statuses, given lp_rewards:
\* the APRs the day appends, one for each status
lp_aprs_of(day, lp_statuses, iasset_ada_prices, lp_rewards, indy_prices) ==
    IF lp_rewards.raised THEN Raised
    ELSE IF \E i \in 1..Len(lp_statuses) :
                lp_apr_of_status(day, lp_statuses[i], iasset_ada_prices, lp_rewards.val, indy_prices).raised
    THEN Raised
    ELSE Returned([lp \in {lp_statuses[i].lp : i \in 1..Len(lp_statuses)} |->
            lp_apr_of_status(day,
                lp_statuses[CHOOSE i \in 1..Len(lp_statuses) : lp_statuses[i].lp = lp],
                iasset_ada_prices, lp_rewards.val, indy_prices).val])

\* lp_rewards of one round of lp.get_epoch_aprs
lp_rewards_of(day, lp_statuses, iasset_group_rewards) ==
    IF iasset_group_rewards.raised THEN Raised
    ELSE distribute_to_liquidity_pools(iasset_group_rewards.val, lp_statuses, day)

\* One round of the loop of lp.get_epoch_aprs
lp_daily_aprs(day, epoch_indy, indy_prices, iasset_ada_prices, total_supplies, lp_statuses) ==
    lp_aprs_of(day, lp_statuses, iasset_ada_prices,
               lp_rewards_of(day, lp_statuses,
                   get_iassets_daily_indy(day, epoch_indy, iasset_ada_prices,
                                          total_supplies, lp_statuses)),
               indy_prices)

\* The data of the snapshot days: the epoch before iETH is launched, the
\* epoch of its launch (386, on whose first day it is launched) and the next;
\* one epoch of the liquidity pools. A stability pool holds the day's amount
\* of its iAsset; the first liquidity pool holds the day's amount, the
\* second, on the days it is listed, holds 1.
AprSpEpochs == {385, 386, 387}
AprLpEpochs == {400}
AprAmounts ==
    [1..5 -> {One, <<2, 1>>}] \cup {<<One, One, Zero, One, One>>}
AprListed == [1..5 -> BOOLEAN]
AprSpIndy == <<28768, 1>>
AprLpIndy == <<4795, 1>>
AprDates(epoch) == {get_epoch_snapshot_dates(epoch)[i] : i \in 1..5}
AprIndyPrices(epoch) == [day \in AprDates(epoch) |-> <<3, 1>>]
AprIAssetPrices(day) == [x \in get_active_iassets(day) |-> IF x = "iUSD" THEN One ELSE <<2, 1>>]
AprSpSupplies(day, amount) == [x \in get_active_iassets(day) |-> amount]
AprLpPrices == [x \in {"iUSD"} |-> One]
AprLpSupplies == [x \in {"iUSD"} |-> <<4, 1>>]
AprLpStatuses(amount, listed) ==
    <<LiquidityPoolStatusWithSupplies(
          LiquidityPool("Minswap", "iUSD", "ADA", "minswap_iusd_ada"), amount, <<2, 1>>, One)>>
    \o (IF listed
        THEN <<LiquidityPoolStatusWithSupplies(
                   LiquidityPool("WingRiders", "iUSD", "ADA", "wingriders_iusd_ada"),
                   One, <<4, 1>>, One)>>
        ELSE <<>>)

IdleApr ==
    /\ q_module = "none"
    /\ q_epoch = 0
    /\ q_amounts = <<>>
    /\ q_listed = <<>>
    /\ q_done = 0
    /\ q_days = <<>>
    /\ q_daily_aprs = <<>>
    /\ q_status = "idle"
    /\ q_ret = <<>>

InputsApr ==
    /\ \/ q_module = "sp" /\ q_epoch \in AprSpEpochs /\ q_listed = <<>>
       \/ q_module = "lp" /\ q_epoch \in AprLpEpochs /\ q_listed \in AprListed
    /\ q_amounts \in AprAmounts
    /\ q_done = 0
    /\ q_days = <<>>
    /\ q_daily_aprs = <<>>
    /\ q_status = "running"
    /\ q_ret = <<>>

\* One round of the loop of get_epoch_aprs with the day's APRs in daily; the
\* fifth round is followed by return _average_aprs(daily_aprs)
AprRound(daily) ==
    IF daily.raised
    THEN /\ q_status' = "raise"
         /\ UNCHANGED <<q_done, q_days, q_daily_aprs, q_ret>>
    ELSE \E appended \in {append_daily(q_daily_aprs, daily.val)} :
            /\ q_done' = q_done + 1
            /\ q_days' = Append(q_days, daily.val)
            /\ q_daily_aprs' = appended
            /\ IF q_done + 1 = 5
               THEN q_status' = "return" /\ q_ret' = _average_aprs(appended)
               ELSE UNCHANGED <<q_status, q_ret>>

\* sp.get_epoch_aprs(epoch, epoch_indy)
SpAprDay ==
    /\ q_module = "sp"
    /\ q_status = "running"
    /\ \E day \in {get_epoch_snapshot_dates(q_epoch)[q_done + 1]} :
       \E daily \in {get_daily_aprs(day, AprSpIndy, AprIndyPrices(q_epoch), AprIAssetPrices(day),
                                    AprSpSupplies(day, q_amounts[q_done + 1]),
                                    RuleSaturations(day), RuleMarketCaps(day),
                                    RuleVolatilities(day))} :
          AprRound(daily)
    /\ UNCHANGED <<q_module, q_epoch, q_amounts, q_listed>>
    /\ UNCHANGED exceptApr

\* lp.get_epoch_aprs(epoch, epoch_indy), only_day = None
LpAprDay ==
    /\ q_module = "lp"
    /\ q_status = "running"
    /\ \E day \in {get_epoch_snapshot_dates(q_epoch)[q_done + 1]} :
       \E daily \in {lp_daily_aprs(day, AprLpIndy, AprIndyPrices(q_epoch), AprLpPrices,
                                   AprLpSupplies,
                                   AprLpStatuses(q_amounts[q_done + 1], q_listed[q_done + 1]))} :
          AprRound(daily)
    /\ UNCHANGED <<q_module, q_epoch, q_amounts, q_listed>>
    /\ UNCHANGED exceptApr

NextApr == SpAprDay \/ LpAprDay

---------------------------------------------------------------------------
(* sp/distribution.py, lp/distribution.py, gov.py: the rewards of an epoch *)

\* The accounts that rewards_stability_pool may list on a day, all of them at
\* least 24 hours old but where said otherwise:
\* one account per iAsset; two accounts of iUSD; a young account next to the
\* three; no account at all.
EpochAccount(owner, asset, day, age) ==
    [owner |-> owner, asset |-> asset, iasset_staked |-> SpStaked[owner], opened_at |-> get_snapshot_unix_time(day) - age]

EpochAccounts(day) ==
    { << EpochAccount("A", "iUSD", day, SecondsPerDay), EpochAccount("A", "iBTC", day, SecondsPerDay),
         EpochAccount("B", "iETH", day, SecondsPerDay) >>,
      << EpochAccount("A", "iUSD", day, SecondsPerDay), EpochAccount("B", "iUSD", day, SecondsPerDay),
         EpochAccount("A", "iBTC", day, SecondsPerDay), EpochAccount("A", "iETH", day, SecondsPerDay) >>,
      << EpochAccount("B", "iUSD", day, SecondsPerDay), EpochAccount("B", "iBTC", day, SecondsPerDay),
         EpochAccount("A", "iETH", day, SecondsPerDay), EpochAccount("A", "iBTC", day, SecondsPerDay - 1) >>,
      << >> }

SpEpochs == {445, 446, 447}
SpEpochBudgets == {Zero, <<22431, 1>>}

\* One round of the loop of sp.get_epoch_rewards_per_staker(epoch, epoch_indy),
\* and the return after the last one
SpEpochDay ==
    /\ e_category = "sp"
    /\ e_status = "running"
    /\ \E day \in {get_epoch_snapshot_dates(e_epoch)[e_done + 1]} :
       \E all_accounts \in EpochAccounts(day) :
       \E r \in {sp_get_rewards_per_staker(day, e_epoch_indy, all_accounts,
                     SpSaturations(day), SpMarketCaps(day), SpVolatilities(day))} :
          IF r.raised
          THEN /\ e_status' = "raise"
               /\ UNCHANGED <<e_done, e_rewards>>
          ELSE /\ e_rewards' = e_rewards \o r.val
               /\ e_done' = e_done + 1
               /\ e_status' = IF e_done + 1 = 5 THEN "return" ELSE "running"
    /\ UNCHANGED <<e_category, e_epoch, e_epoch_indy, e_account_indy>>
    /\ UNCHANGED exceptEpoch

lp_get_rewards_per_staker(day, epoch_indy, prices, total_supplies, lp_status, staker_info) ==
    LET iassets_daily_rewards ==
            get_iassets_daily_indy(day, epoch_indy, prices, total_supplies, lp_status)
    IN  IF iassets_daily_rewards.raised THEN Raised
        ELSE distribute_to_accounts(day, iassets_daily_rewards.val, lp_status, staker_info)

\* check_sum of lp.get_epoch_rewards_per_staker:
\* abs(epoch_indy - indy_sum) > 0.01, indy_sum the lovelaces / 1_000_000.0
check_sum_raises(epoch_indy, rewards) ==
    LET lovelaces == SumLovelaces(rewards)
        whole == epoch_indy[1] \div epoch_indy[2] - lovelaces[1]
        below == RSub(Rat(epoch_indy[1] % epoch_indy[2], epoch_indy[2]),
                      Rat(lovelaces[2], LovelacesPerIndy))
        diff == RAdd(<<whole, 1>>, below)
    IN  Abs(whole) >= 2 \/ RLt(Rat(1, 100), <<Abs(diff[1]), diff[2]>>)

\* The pools and stakers that a day may have: three pools with stakers; two
\* pools with one staker; three pools, one of them without a staker; no pool.
EpochPool(dex, iasset) ==
    CHOOSE lp \in LpPools : lp.dex = dex /\ lp.iasset = iasset

EpochStakers(a, b) ==
    [owner \in {"A", "B"} |-> IF owner = "A" THEN a ELSE b]

EpochLpData ==
    { [ statuses |-> << LiquidityPoolStatus(EpochPool("Minswap", "iUSD"), One),
                        LiquidityPoolStatus(EpochPool("WingRiders", "iUSD"), <<3, 1>>),
                        LiquidityPoolStatus(EpochPool("Minswap", "iBTC"), One) >>,
        staker_info |-> [lp \in LpPools |-> IF lp.dex = "WingRiders" THEN EpochStakers(One, One)
                                            ELSE EpochStakers(One, <<3, 1>>)] ],
      [ statuses |-> << LiquidityPoolStatus(EpochPool("Minswap", "iUSD"), <<3, 1>>),
                        LiquidityPoolStatus(EpochPool("Minswap", "iBTC"), <<3, 1>>) >>,
        staker_info |-> [lp \in {EpochPool("Minswap", "iUSD"), EpochPool("Minswap", "iBTC")} |->
                            [owner \in {"A"} |-> One]] ],
      [ statuses |-> << LiquidityPoolStatus(EpochPool("Minswap", "iUSD"), One),
                        LiquidityPoolStatus(EpochPool("WingRiders", "iUSD"), <<3, 1>>),
                        LiquidityPoolStatus(EpochPool("Minswap", "iBTC"), One) >>,
        staker_info |-> [lp \in {EpochPool("Minswap", "iUSD"), EpochPool("Minswap", "iBTC")} |->
                            EpochStakers(One, <<3, 1>>)] ],
      [ statuses |-> << >>, staker_info |-> << >> ] }

EpochLpSupplies == [iasset \in InputAssets |-> <<4, 1>>]
LpEpochs == {400, 401}
LpEpochBudgets == {Zero, <<4795, 1>>}

\* One round of the loop of lp.get_epoch_rewards_per_staker(epoch, epoch_indy),
\* and check_sum and the return after the last one
LpEpochDay ==
    /\ e_category = "lp"
    /\ e_status = "running"
    /\ LET day == get_epoch_snapshot_dates(e_epoch)[e_done + 1]
       IN  \E data \in EpochLpData, prices \in LpPrices :
              LET r == lp_get_rewards_per_staker(day, e_epoch_indy, prices, EpochLpSupplies,
                                                 data.statuses, data.staker_info)
              IN  IF r.raised
                  THEN /\ e_status' = "raise"
                       /\ UNCHANGED <<e_done, e_rewards>>
                  ELSE /\ e_rewards' = e_rewards \o r.val
                       /\ e_done' = e_done + 1
                       /\ e_status' =
                            IF e_done + 1 < 5 THEN "running"
                            ELSE IF check_sum_raises(e_epoch_indy, e_rewards \o r.val)
                            THEN "raise" ELSE "return"
    /\ UNCHANGED <<e_category, e_epoch, e_epoch_indy, e_account_indy>>
    /\ UNCHANGED exceptEpoch

\* df["staked_indy"].sum(), in lovelaces
RECURSIVE SumStaked(_)
SumStaked(account_indy) ==
    IF account_indy = <<>> THEN 0
    ELSE Head(account_indy).staked_indy + SumStaked(Tail(account_indy))

\* What numpy gives for 0.0 / 0.0
NaN == <<0, 0>>

\* gov.get_epoch_rewards_per_staker rewarding an owner for the first of its
\* rows only instead of the sum of its rows.
gov_get_epoch_rewards_per_staker_unmerged(epoch, epoch_indy, account_indy) ==
    LET snap_date == get_epoch_end_date(epoch)
        total_staked_indy == Rat(SumStaked(account_indy), LovelacesPerIndy)
        duplicated == \E i, j \in 1..Len(account_indy) :
                            i # j /\ account_indy[i].owner = account_indy[j].owner
        first_of_owner(i) == \A j \in 1..(i - 1) : account_indy[j].owner # account_indy[i].owner
        kept == {i \in 1..Len(account_indy) : first_of_owner(i)}
        nth(n) == CHOOSE i \in kept : Cardinality({k \in kept : k <= i}) = n
        df == [n \in 1..Cardinality(kept) |-> account_indy[nth(n)]]
        reward(row) ==
            IF total_staked_indy = Zero THEN NaN
            ELSE RDiv(RMul(Rat(row.staked_indy, LovelacesPerIndy), epoch_indy),
                      total_staked_indy)
    IN  IF account_indy = <<>> THEN Raised
        ELSE IF snap_date >= Date(2023, 5, 20) /\ duplicated THEN Raised
        ELSE Returned([n \in 1..Len(df) |->
                IndividualReward(reward(df[n]), snap_date, df[n].owner,
                                 get_reward_expiration(snap_date), "INDY staking reward")])

gov_get_epoch_rewards_per_staker(epoch, epoch_indy, account_indy) ==
    LET snap_date == get_epoch_end_date(epoch)
        total_staked_indy == Rat(SumStaked(account_indy), LovelacesPerIndy)
        pkh_indy(owner) ==
            Rat(SumStaked(SelectSeq(account_indy, LAMBDA row : row.owner = owner)),
                LovelacesPerIndy)
        duplicated == \E i, j \in 1..Len(account_indy) :
                            i # j /\ account_indy[i].owner = account_indy[j].owner
        first_of_owner(i) == \A j \in 1..(i - 1) : account_indy[j].owner # account_indy[i].owner
        kept == {i \in 1..Len(account_indy) : first_of_owner(i)}
        \* the index in account_indy of the n-th row that drop_duplicates keeps
        nth(n) == CHOOSE i \in kept : Cardinality({k \in kept : k <= i}) = n
        df == [n \in 1..Cardinality(kept) |-> account_indy[nth(n)]]
        reward(row) ==
            IF total_staked_indy = Zero THEN NaN
            ELSE RDiv(RMul(pkh_indy(row.owner), epoch_indy), total_staked_indy)
    IN  \* df["staked_indy"] of an empty frame: KeyError
        IF account_indy = <<>> THEN Raised
        \* "Duplicate 'owner' rows in API response."
        ELSE IF snap_date >= Date(2023, 5, 20) /\ duplicated THEN Raised
        ELSE Returned([n \in 1..Len(df) |->
                IndividualReward(reward(df[n]), snap_date, df[n].owner,
                                 get_reward_expiration(snap_date), "INDY staking reward")])

\* The accounts that rewards_staking may list: up to MaxAccounts accounts of
\* owners A and B with 1 or 3 INDY staked.
GovOwners == {"A", "B"}
GovStaked == {LovelacesPerIndy, 3 * LovelacesPerIndy}
GovAccounts ==
    UNION {[1..n -> [owner : GovOwners, staked_indy : GovStaked]] : n \in 0..MaxAccounts}
GovEpochs == {400, 447}
GovEpochBudgets == {Zero, <<2398, 1>>}

\* gov.get_epoch_rewards_per_staker(epoch, epoch_indy)
GovEpochCall ==
    /\ e_category = "gov"
    /\ e_status = "running"
    /\ \E r \in {gov_get_epoch_rewards_per_staker(e_epoch, e_epoch_indy, e_account_indy)} :
          /\ e_status' = IF r.raised THEN "raise" ELSE "return"
          /\ e_rewards' = r.val
    /\ UNCHANGED <<e_category, e_epoch, e_epoch_indy, e_account_indy, e_done>>
    /\ UNCHANGED exceptEpoch

IdleEpoch ==
    /\ e_category = "sp"
    /\ e_epoch = 0
    /\ e_epoch_indy = Zero
    /\ e_account_indy = <<>>
    /\ e_done = 0
    /\ e_status = "idle"
    /\ e_rewards = <<>>

InputsEpoch ==
    /\ e_category \in {"sp", "lp", "gov"}
    /\ e_epoch \in (CASE e_category = "sp" -> SpEpochs
                      [] e_category = "lp" -> LpEpochs
                      [] e_category = "gov" -> GovEpochs)
    /\ e_epoch_indy \in (CASE e_category = "sp" -> SpEpochBudgets
                           [] e_category = "lp" -> LpEpochBudgets
                           [] e_category = "gov" -> GovEpochBudgets)
    /\ e_account_indy \in (IF e_category = "gov" THEN GovAccounts ELSE {<<>>})
    /\ e_done = 0
    /\ e_status = "running"
    /\ e_rewards = <<>>

NextEpoch == SpEpochDay \/ LpEpochDay \/ GovEpochCall

---------------------------------------------------------------------------
(* summary.py: get_epoch_all_rewards, get_day_all_rewards *)

\* a + b of two lists, either of which may have raised instead
extend(rewards, more) ==
    IF rewards.raised \/ more.raised THEN Raised
    ELSE Returned(rewards.val \o more.val)

\* The data of the snapshot days of an epoch, by the number of the choice:
\* stability pool accounts 1 and 2 get rewards, 3 (no account) makes
\* sp.get_rewards_per_staker raise; likewise pools and stakers 1 and 2, and 3
\* (no pool), while 4 (a pool without stakers) leaves part of the day's INDY
\* undistributed; rewards_staking lists 1 (A and B), 2 (A) or 3 (nothing,
\* which makes gov.get_epoch_rewards_per_staker raise).
AllSpAccounts(choice, day) ==
    CASE choice = 1 -> << EpochAccount("A", "iUSD", day, SecondsPerDay),
                          EpochAccount("A", "iBTC", day, SecondsPerDay),
                          EpochAccount("B", "iETH", day, SecondsPerDay) >>
      [] choice = 2 -> << EpochAccount("A", "iUSD", day, SecondsPerDay),
                          EpochAccount("B", "iUSD", day, SecondsPerDay),
                          EpochAccount("A", "iBTC", day, SecondsPerDay),
                          EpochAccount("A", "iETH", day, SecondsPerDay) >>
      [] choice = 3 -> << >>

AllLpData(choice) ==
    CASE choice = 1 ->
            [ statuses |-> << LiquidityPoolStatus(EpochPool("Minswap", "iUSD"), One),
                              LiquidityPoolStatus(EpochPool("WingRiders", "iUSD"), <<3, 1>>),
                              LiquidityPoolStatus(EpochPool("Minswap", "iBTC"), One) >>,
              staker_info |-> [lp \in LpPools |->
                                  IF lp.dex = "WingRiders" THEN EpochStakers(One, One)
                                  ELSE EpochStakers(One, <<3, 1>>)] ]
      [] choice = 2 ->
            [ statuses |-> << LiquidityPoolStatus(EpochPool("Minswap", "iUSD"), <<3, 1>>),
                              LiquidityPoolStatus(EpochPool("Minswap", "iBTC"), <<3, 1>>) >>,
              staker_info |-> [lp \in {EpochPool("Minswap", "iUSD"),
                                       EpochPool("Minswap", "iBTC")} |->
                                  [owner \in {"A"} |-> One]] ]
      [] choice = 3 -> [ statuses |-> << >>, staker_info |-> << >> ]
      [] choice = 4 ->
            [ statuses |-> << LiquidityPoolStatus(EpochPool("Minswap", "iUSD"), One),
                              LiquidityPoolStatus(EpochPool("WingRiders", "iUSD"), <<3, 1>>),
                              LiquidityPoolStatus(EpochPool("Minswap", "iBTC"), One) >>,
              staker_info |-> [lp \in {EpochPool("Minswap", "iUSD"),
                                       EpochPool("Minswap", "iBTC")} |->
                                  EpochStakers(One, <<3, 1>>)] ]

AllGovData(choice) ==
    CASE choice = 1 -> << [owner |-> "A", staked_indy |-> LovelacesPerIndy],
                          [owner |-> "B", staked_indy |-> 3 * LovelacesPerIndy] >>
      [] choice = 2 -> << [owner |-> "A", staked_indy |-> LovelacesPerIndy] >>
      [] choice = 3 -> << >>

\* The budgets of the epoch: sp_indy, lp_indy, gov_indy
AllSpIndy == <<22431, 1>>
AllLpIndy == <<4795, 1>>
AllGovIndy == <<2398, 1>>
AllPrices == [iasset \in InputAssets |-> IF iasset = "iUSD" THEN One ELSE <<2, 1>>]

\* The three calls on the snapshots of a day
all_gov_rewards(epoch, gov_choice) ==
    gov_get_epoch_rewards_per_staker(epoch, AllGovIndy, AllGovData(gov_choice))

all_sp_rewards(day, sp_choice) ==
    sp_get_rewards_per_staker(day, AllSpIndy, AllSpAccounts(sp_choice, day),
                              SpSaturations(day), SpMarketCaps(day), SpVolatilities(day))

all_lp_rewards(day, lp_choice) ==
    lp_get_rewards_per_staker(day, AllLpIndy, AllPrices, EpochLpSupplies,
                              AllLpData(lp_choice).statuses,
                              AllLpData(lp_choice).staker_info)

\* get_day_all_rewards with the liquidity-pool rewards on every day.
get_day_all_rewards_always_lp(day, gov_choice, sp_choice, lp_choice) ==
    extend(extend(IF get_epoch_end_date(date_to_epoch(day)) = day
                  THEN all_gov_rewards(date_to_epoch(day), gov_choice)
                  ELSE Returned(<<>>),
                  all_sp_rewards(day, sp_choice)),
           all_lp_rewards(day, lp_choice))

get_day_all_rewards(day, gov_choice, sp_choice, lp_choice) ==
    extend(extend(IF get_epoch_end_date(date_to_epoch(day)) = day
                  THEN all_gov_rewards(date_to_epoch(day), gov_choice)
                  ELSE Returned(<<>>),
                  all_sp_rewards(day, sp_choice)),
           IF day <= Date(2023, 7, 4) THEN all_lp_rewards(day, lp_choice)
           ELSE Returned(<<>>))

\* The epochs around the end of the liquidity-pool rewards, and the choices
\* of the five days: all alike, alternating, or one failing day.
AllEpochs == {421, 422}
AllChoices ==
    {<<1, 1, 1, 1, 1>>, <<2, 2, 2, 2, 2>>, <<1, 2, 1, 2, 1>>, <<3, 1, 1, 1, 1>>,
     <<1, 1, 3, 1, 1>>, <<1, 1, 1, 1, 3>>}
AllLpChoices == AllChoices \cup {<<1, 1, 1, 4, 1>>}

IdleAll ==
    /\ a_epoch = 0
    /\ a_gov_data = 0
    /\ a_sp_data = <<>>
    /\ a_lp_data = <<>>
    /\ a_phase = "idle"
    /\ a_done = 0
    /\ a_log = <<>>
    /\ a_gov = <<>>
    /\ a_sp = <<>>
    /\ a_lp = <<>>
    /\ a_ret = <<>>
    /\ a_days = <<>>

InputsAll ==
    /\ a_epoch \in AllEpochs
    /\ a_gov_data \in 1..3
    /\ a_sp_data \in AllChoices
    /\ a_lp_data \in AllLpChoices
    /\ a_phase = "gov"
    /\ a_done = 0
    /\ a_log = <<>>
    /\ a_gov = <<>>
    /\ a_sp = <<>>
    /\ a_lp = <<>>
    /\ a_ret = <<>>
    /\ a_days = <<>>

\* gov_rewards = gov.get_epoch_rewards_per_staker(epoch, gov_indy)
AllGovCall ==
    /\ a_phase = "gov"
    /\ a_log' = Append(a_log, <<"gov", get_epoch_end_date(a_epoch)>>)
    /\ \E r \in {all_gov_rewards(a_epoch, a_gov_data)} :
          IF r.raised
          THEN /\ a_phase' = "raise"
               /\ UNCHANGED a_gov
          ELSE /\ a_phase' = "sp"
               /\ a_gov' = r.val
    /\ UNCHANGED <<a_epoch, a_gov_data, a_sp_data, a_lp_data, a_done, a_sp, a_lp, a_ret, a_days>>
    /\ UNCHANGED exceptAll

\* One round of the loop of sp.get_epoch_rewards_per_staker(epoch, sp_indy);
\* after the last one all_rewards = sp_rewards + gov_rewards, returned when
\* epoch >= 422
AllSpDay ==
    /\ a_phase = "sp"
    /\ \E day \in {get_epoch_snapshot_dates(a_epoch)[a_done + 1]} :
          /\ a_log' = Append(a_log, <<"sp", day>>)
          /\ \E r \in {all_sp_rewards(day, a_sp_data[a_done + 1])} :
                IF r.raised
                THEN /\ a_phase' = "raise"
                     /\ UNCHANGED <<a_done, a_sp, a_ret>>
                ELSE /\ a_sp' = a_sp \o r.val
                     /\ IF a_done + 1 < 5
                        THEN /\ a_done' = a_done + 1
                             /\ a_phase' = "sp"
                             /\ UNCHANGED a_ret
                        ELSE IF a_epoch < 422
                        THEN /\ a_done' = 0
                             /\ a_phase' = "lp"
                             /\ UNCHANGED a_ret
                        ELSE /\ a_done' = 5
                             /\ a_phase' = "return"
                             /\ a_ret' = (a_sp \o r.val) \o a_gov
    /\ UNCHANGED <<a_epoch, a_gov_data, a_sp_data, a_lp_data, a_gov, a_lp, a_days>>
    /\ UNCHANGED exceptAll

\* One round of the loop of lp.get_epoch_rewards_per_staker(epoch, lp_indy);
\* after the last one check_sum, and all_rewards is returned
AllLpDay ==
    /\ a_phase = "lp"
    /\ \E day \in {get_epoch_snapshot_dates(a_epoch)[a_done + 1]} :
          /\ a_log' = Append(a_log, <<"lp", day>>)
          /\ \E r \in {all_lp_rewards(day, a_lp_data[a_done + 1])} :
                IF r.raised
                THEN /\ a_phase' = "raise"
                     /\ UNCHANGED <<a_done, a_lp, a_ret>>
                ELSE /\ a_lp' = a_lp \o r.val
                     /\ a_done' = a_done + 1
                     /\ IF a_done + 1 < 5
                        THEN /\ a_phase' = "lp"
                             /\ UNCHANGED a_ret
                        ELSE IF check_sum_raises(AllLpIndy, a_lp \o r.val)
                        THEN /\ a_phase' = "raise"
                             /\ UNCHANGED a_ret
                        ELSE /\ a_phase' = "return"
                             /\ a_ret' = (a_sp \o a_gov) \o (a_lp \o r.val)
    /\ UNCHANGED <<a_epoch, a_gov_data, a_sp_data, a_lp_data, a_gov, a_sp, a_days>>
    /\ UNCHANGED exceptAll

\* summary.get_day_all_rewards(day, ...) for the next snapshot day of the
\* epoch, on the same snapshots
DayAllRewardsCall ==
    /\ a_phase # "idle"
    /\ Len(a_days) < 5
    /\ \E day \in {get_epoch_snapshot_dates(a_epoch)[Len(a_days) + 1]} :
       \E r \in {get_day_all_rewards(day, a_gov_data, a_sp_data[Len(a_days) + 1],
                                     a_lp_data[Len(a_days) + 1])} :
          a_days' = Append(a_days, r)
    /\ UNCHANGED <<a_epoch, a_gov_data, a_sp_data, a_lp_data, a_phase, a_done, a_log,
                   a_gov, a_sp, a_lp, a_ret>>
    /\ UNCHANGED exceptAll

NextAll == AllGovCall \/ AllSpDay \/ AllLpDay \/ DayAllRewardsCall

---------------------------------------------------------------------------
(* analytics_api/simple.py: get_iasset_ada_market_caps *)

get_iasset_ada_market_caps(supplies, prices) ==
    LET iassets == DOMAIN supplies
    IN  \* "iAsset supply and price keys don't match"
        IF iassets # DOMAIN prices THEN Raised
        ELSE Returned([x \in iassets |-> RMul(supplies[x], prices[x])])

\* The supplies and prices of the day: dicts over any of the iAssets.
McapSupplies == {Zero, <<4, 1>>, <<80, 1>>}
McapPrices == {One, <<2, 1>>}

IdleMarketCaps ==
    /\ m_supplies = <<>>
    /\ m_prices = <<>>
    /\ m_status = "idle"
    /\ m_ret = <<>>

InputsMarketCaps ==
    /\ m_supplies \in PartialMaps(IAsset, McapSupplies)
    /\ m_prices \in PartialMaps(IAsset, McapPrices)
    /\ m_status = "idle"
    /\ m_ret = <<>>

\* analytics_api.get_iasset_ada_market_caps(day)
GetIAssetAdaMarketCapsCall ==
    /\ m_status = "idle"
    /\ \E r \in {get_iasset_ada_market_caps(m_supplies, m_prices)} :
          /\ m_status' = IF r.raised THEN "raise" ELSE "return"
          /\ m_ret' = r.val
    /\ UNCHANGED <<m_supplies, m_prices>>
    /\ UNCHANGED exceptMarketCaps

NextMarketCaps == GetIAssetAdaMarketCapsCall

---------------------------------------------------------------------------
(* polygon_api.py: get_daily_closing_prices *)

\* An outcome of the call: "return" or the exception raised, whether
\* _fetch_prices was called, and the value returned.
Outcome(status, fetched, val) == [status |-> status, fetched |-> fetched, val |-> val]

\* _is_unfinished_day with "day > today": today itself counts as finished.
is_unfinished_day_after_today(day, today_date) == day > today_date

\* today_date is datetime.datetime.utcnow().date()
is_unfinished_day(day, today_date) == day >= today_date

\* A daily candle of the response: "t" is the unix time in milliseconds of
\* the given second of the given day, "c" the closing price.
Candle(day, seconds, c) == [day |-> day, seconds |-> seconds, c |-> c]

process_api_response(res) ==
    IF "status" \notin res.keys THEN [raised |-> "KeyError", val |-> <<>>]
    ELSE IF res.status # "OK" THEN [raised |-> "Exception", val |-> <<>>]
    ELSE IF res.queryCount # res.resultsCount THEN [raised |-> "Exception", val |-> <<>>]
    ELSE IF res.resultsCount = 0 \/ "results" \notin res.keys
    THEN [raised |-> "Exception", val |-> <<>>]
    \* "Unexpected timestamp for daily candle (time not 00:00)"
    ELSE IF \E i \in 1..Len(res.results) : res.results[i].seconds # 0
    THEN [raised |-> "Exception", val |-> <<>>]
    ELSE [raised |-> "",
          val |-> [d \in {res.results[i].day : i \in 1..Len(res.results)} |->
                     LET last == CHOOSE i \in 1..Len(res.results) :
                                    /\ res.results[i].day = d
                                    /\ \A j \in (i + 1)..Len(res.results) :
                                          res.results[j].day # d
                     IN  res.results[last].c]]

\* <<>> for None, <<date>> for the first missing date
get_first_missing_date(days, first_day, last_day) ==
    LET first == IF last_day < first_day THEN last_day ELSE first_day
        last == IF last_day < first_day THEN first_day ELSE last_day
        missing == {date \in first..last : date \notin days}
    IN  IF missing = {} THEN <<>>
        ELSE <<CHOOSE date \in missing : \A other \in missing : date <= other>>

get_daily_closing_prices(first_day, last_day_or_none, today, response) ==
    LET last_day == IF last_day_or_none = <<>> THEN first_day ELSE last_day_or_none[1]
        closing_prices == process_api_response(response)
        missing == get_first_missing_date(DOMAIN closing_prices.val, first_day, last_day)
    IN  IF first_day > last_day THEN Outcome("ValueError", FALSE, <<>>)
        ELSE IF is_unfinished_day(first_day, today[1]) THEN Outcome("ValueError", FALSE, <<>>)
        ELSE IF is_unfinished_day(last_day, today[2]) THEN Outcome("ValueError", FALSE, <<>>)
        \* _fetch_prices raises: no API key, or an HTTP error
        ELSE IF response.failed THEN Outcome("Exception", TRUE, <<>>)
        ELSE IF closing_prices.raised # "" THEN Outcome(closing_prices.raised, TRUE, <<>>)
        ELSE IF missing # <<>> THEN Outcome("Exception", TRUE, <<>>)
        ELSE Outcome("return", TRUE, closing_prices.val)

\* The requests and responses the call is tried on: days of a window of
\* three, the clock on one of them or on the day after, read twice (the
\* second reading may be a day later), and responses with up to MaxCandles
\* candles.
MaxCandles == 3
ClosingDays == Date(2023, 1, 7)..Date(2023, 1, 9)
ClosingTodays == Date(2023, 1, 7)..Date(2023, 1, 10)
Candles ==
    {Candle(day, 0, One) : day \in ClosingDays} \union {Candle(Date(2023, 1, 8), 3600, One)}
CandleLists == UNION {[1..n -> Candles] : n \in 0..MaxCandles}
FetchFailure ==
    [failed |-> TRUE, keys |-> {}, status |-> "", queryCount |-> 0, resultsCount |-> 0,
     results |-> <<>>]
Responses ==
    {FetchFailure}
    \union [failed : {FALSE}, keys : {{"status", "results"}}, status : {"OK", "ERROR"},
            queryCount : {0, 1}, resultsCount : {0, 1}, results : CandleLists]
    \union [failed : {FALSE}, keys : {{"results"}}, status : {""},
            queryCount : {1}, resultsCount : {1}, results : CandleLists]
    \union [failed : {FALSE}, keys : {{"status"}}, status : {"OK"},
            queryCount : {0, 1}, resultsCount : {0, 1}, results : {<<>>}]

IdleClosingPrices ==
    /\ c_first_day = 0
    /\ c_last_day = <<>>
    /\ c_today = <<0, 0>>
    /\ c_response = FetchFailure
    /\ c_fetched = FALSE
    /\ c_status = "idle"
    /\ c_ret = <<>>

InputsClosingPrices ==
    /\ c_first_day \in ClosingDays
    /\ c_last_day \in {<<>>} \union {<<day>> : day \in ClosingDays}
    /\ c_today \in {<<now, later>> \in ClosingTodays \X ClosingTodays :
                       later \in {now, now + 1}}
    /\ c_response \in Responses
    /\ c_fetched = FALSE
    /\ c_status = "idle"
    /\ c_ret = <<>>

\* polygon_api.get_daily_closing_prices(ticker, first_day, last_day)
GetDailyClosingPricesCall ==
    /\ c_status = "idle"
    /\ \E r \in {get_daily_closing_prices(c_first_day, c_last_day, c_today, c_response)} :
          /\ c_status' = r.status
          /\ c_fetched' = r.fetched
          /\ c_ret' = r.val
    /\ UNCHANGED <<c_first_day, c_last_day, c_today, c_response>>
    /\ UNCHANGED exceptClosingPrices

NextClosingPrices == GetDailyClosingPricesCall

---------------------------------------------------------------------------
(* volatility.py: get_volatility *)

IASSET_USD_TICKERS == [symbol \in {"ibtc", "ieth"} |-> IF symbol = "ibtc" THEN "X:BTCUSD" ELSE "X:ETHUSD"]

\* The number of closing prices of a year
DaysOfYear == 365

\* A call of polygon_api.get_daily_closing_prices
PriceRequest(ticker, first_day, last_day) ==
    [ticker |-> ticker, first_day |-> first_day, last_day |-> last_day]

\* What a call returns or raises, with the requests it has made, the dates
\* and the prices it has computed from
VolatilityOutcome(status, requests, dates, prices, val) ==
    [status |-> status, requests |-> requests, dates |-> dates, prices |-> prices, val |-> val]

\* polygon_api.get_daily_closing_prices(ticker, first_day, last_day) when
\* Polygon answers with the candles of the requested days; market[ticker] has
\* the closing price of every day
closing_prices_of(ticker, first_day, last_day, today, market) ==
    IF first_day > last_day THEN [raised |-> "ValueError", val |-> <<>>]
    ELSE IF is_unfinished_day(first_day, today) \/ is_unfinished_day(last_day, today)
    THEN [raised |-> "ValueError", val |-> <<>>]
    ELSE [raised |-> "", val |-> [date \in first_day..last_day |-> market[ticker][date]]]

_get_ones(first_day, last_day) ==
    IF first_day > last_day THEN [raised |-> "Exception", val |-> <<>>]
    ELSE [raised |-> "", val |-> [date \in first_day..last_day |-> One]]

\* The dates of a set between lo and hi, in order
RECURSIVE dates_in_order(_, _, _)
dates_in_order(dates, lo, hi) ==
    IF lo > hi THEN <<>>
    ELSE IF lo = hi THEN (IF lo \in dates THEN <<lo>> ELSE <<>>)
    ELSE dates_in_order(dates, lo, (lo + hi) \div 2)
         \o dates_in_order(dates, (lo + hi) \div 2 + 1, hi)

\* The keys of OrderedDict(sorted(prices.items()))
_order_by_date(dates) ==
    IF dates = {} THEN <<>>
    ELSE dates_in_order(dates,
                        CHOOSE date \in dates : \A other \in dates : date <= other,
                        CHOOSE date \in dates : \A other \in dates : date >= other)

\* sum(xs[lo..hi]), by halves
RECURSIVE sum_between(_, _, _)
sum_between(xs, lo, hi) ==
    IF lo > hi THEN Zero
    ELSE IF lo = hi THEN xs[lo]
    ELSE RAdd(sum_between(xs, lo, (lo + hi) \div 2),
              sum_between(xs, (lo + hi) \div 2 + 1, hi))

_get_daily_pct_changes(prices) ==
    [i \in 1..(Len(prices) - 1) |-> RDiv(RSub(prices[i + 1], prices[i]), prices[i])]

\* statistics.pstdev(data) ** 2: the mean of the squares of the distances
\* from the mean.  The volatility is its square root.
pvariance(data) ==
    RSub(RDiv(sum_between([i \in 1..Len(data) |-> RMul(data[i], data[i])], 1, Len(data)),
              <<Len(data), 1>>),
         RMul(RDiv(sum_between(data, 1, Len(data)), <<Len(data), 1>>),
              RDiv(sum_between(data, 1, Len(data)), <<Len(data), 1>>)))

\* get_volatility from iasset_ada_prices on
sigma_of(requests, dates, iasset_ada_prices) ==
    \* (b - a) / a: ZeroDivisionError
    IF \E i \in 1..(Len(iasset_ada_prices) - 1) : iasset_ada_prices[i] = Zero
    THEN VolatilityOutcome("ZeroDivisionError", requests, dates, iasset_ada_prices, Zero)
    \* pstdev of no data point
    ELSE IF Len(iasset_ada_prices) < 2
    THEN VolatilityOutcome("StatisticsError", requests, dates, iasset_ada_prices, Zero)
    ELSE VolatilityOutcome("return", requests, dates, iasset_ada_prices,
                           pvariance(_get_daily_pct_changes(iasset_ada_prices)))

\* get_volatility from iasset_ada_prices on, given both price dicts
volatility_of_prices(requests, dates, iasset_usd_prices, ada_usd_prices) ==
    IF ada_usd_prices.raised # ""
    THEN VolatilityOutcome(ada_usd_prices.raised, requests, <<>>, <<>>, Zero)
    \* ada_usd_prices[date]: KeyError
    ELSE IF \E i \in 1..Len(dates) : dates[i] \notin DOMAIN ada_usd_prices.val
    THEN VolatilityOutcome("KeyError", requests, <<>>, <<>>, Zero)
    \* iasset_usd_prices[date] / ada_usd_prices[date]: ZeroDivisionError
    ELSE IF \E i \in 1..Len(dates) : ada_usd_prices.val[dates[i]] = Zero
    THEN VolatilityOutcome("ZeroDivisionError", requests, <<>>, <<>>, Zero)
    ELSE sigma_of(requests, dates,
                  [i \in 1..Len(dates) |->
                      RDiv(iasset_usd_prices[dates[i]], ada_usd_prices.val[dates[i]])])

\* get_volatility from ada_usd_prices on, given iasset_usd_prices
volatility_of_iasset_prices(requests, iasset_usd_prices, first_day, last_day, today, market) ==
    IF iasset_usd_prices.raised # ""
    THEN VolatilityOutcome(iasset_usd_prices.raised, requests, <<>>, <<>>, Zero)
    ELSE volatility_of_prices(
            Append(requests, PriceRequest("X:ADAUSD", first_day, last_day)),
            _order_by_date(DOMAIN iasset_usd_prices.val), iasset_usd_prices.val,
            closing_prices_of("X:ADAUSD", first_day, last_day, today, market))

\* get_volatility from iasset_symbol.lower() on
volatility_of_window(iasset_symbol, first_day, last_day, today, market) ==
    \* 'Unknown iAsset "..."'
    IF iasset_symbol # "iusd" /\ iasset_symbol \notin DOMAIN IASSET_USD_TICKERS
    THEN VolatilityOutcome("ValueError", <<>>, <<>>, <<>>, Zero)
    ELSE IF iasset_symbol = "iusd"
    THEN volatility_of_iasset_prices(<<>>, _get_ones(first_day, last_day),
                                     first_day, last_day, today, market)
    ELSE volatility_of_iasset_prices(
            <<PriceRequest(IASSET_USD_TICKERS[iasset_symbol], first_day, last_day)>>,
            closing_prices_of(IASSET_USD_TICKERS[iasset_symbol], first_day, last_day,
                              today, market),
            first_day, last_day, today, market)

\* get_volatility with the closing prices up to the requested day itself
get_volatility_through_day(iasset_symbol, day, today, market) ==
    volatility_of_window(Lower(iasset_symbol), day - (DaysOfYear - 1), day, today, market)

\* last_day = day - 1 day, first_day = last_day - (365 - 1) days
get_volatility(iasset_symbol, day, today, market) ==
    volatility_of_window(Lower(iasset_symbol), (day - 1) - (DaysOfYear - 1), day - 1,
                         today, market)

\* The calls: the symbols with and without a ticker, the day of the
\* docstring's example and one whose window has a 29th of February, the
\* clock on the day before, on the day and on the day after, and ADA closing
\* prices that are flat, that change from day to day, and that are 0 on one
\* day of the window.
VolatilitySymbols == {"iUSD", "iusd", "iBTC", "IETH", "iSOL"}
VolatilityDays == {Date(2023, 3, 15), Date(2024, 3, 15)}
VolatilityMarkets == {"flat", "changing", "zero"}
VolatilityMarket(kind, day) ==
    [ticker \in {"X:ADAUSD", "X:BTCUSD", "X:ETHUSD"} |->
        [date \in (day - DaysOfYear - 2)..(day + 2) |->
            IF ticker = "X:BTCUSD" THEN <<4, 1>>
            ELSE IF ticker = "X:ETHUSD" THEN <<2, 1>>
            ELSE IF kind = "changing" /\ date % 3 = 0 THEN <<2, 1>>
            ELSE IF kind = "zero" /\ date = day - 7 THEN Zero
            ELSE One]]

IdleVolatility ==
    /\ g_symbol = ""
    /\ g_day = 0
    /\ g_today = 0
    /\ g_market = ""
    /\ g_status = "idle"
    /\ g_requests = <<>>
    /\ g_dates = <<>>
    /\ g_prices = <<>>
    /\ g_ret = Zero

InputsVolatility ==
    /\ g_symbol \in VolatilitySymbols
    /\ g_day \in VolatilityDays
    /\ g_today \in {g_day - 1, g_day, g_day + 1}
    /\ g_market \in VolatilityMarkets
    /\ g_status = "idle"
    /\ g_requests = <<>>
    /\ g_dates = <<>>
    /\ g_prices = <<>>
    /\ g_ret = Zero

\* volatility.get_volatility(iasset_symbol, day)
GetVolatilityCall ==
    /\ g_status = "idle"
    /\ \E r \in {get_volatility(g_symbol, g_day, g_today, VolatilityMarket(g_market, g_day))} :
          /\ g_status' = r.status
          /\ g_requests' = r.requests
          /\ g_dates' = r.dates
          /\ g_prices' = r.prices
          /\ g_ret' = r.val
    /\ UNCHANGED <<g_symbol, g_day, g_today, g_market>>
    /\ UNCHANGED exceptVolatility

NextVolatility == GetVolatilityCall

---------------------------------------------------------------------------
(* analytics_api/simple.py: get_lp_status, get_staked_lp_token_supplies,  *)
(* get_account_staked_lp_tokens.  An LP token id "policy_id.asset_name"   *)
(* is the pair <<policy_id, asset_name>>, the key "lovelace" the 1-tuple  *)
(* <<"lovelace">>, the empty string <<>>; an Optional[int] is <<>> for    *)
(* None and <<n>> for n.                                                  *)

Dex == {"Minswap", "MuesliSwap", "WingRiders"}

\* str.lower() on the dex names that occur
LowerDex(name) ==
    CASE name \in {"Minswap", "minswap"} -> "minswap"
      [] name \in {"MuesliSwap", "muesliswap"} -> "muesliswap"
      [] name \in {"WingRiders", "wingriders"} -> "wingriders"
      [] name \in {"SundaeSwap", "sundaeswap"} -> "sundaeswap"

\* Dex.from_str(name) raises ValueError when no member matches
Dex_from_str_raises(name) == \A member \in Dex : LowerDex(member) # LowerDex(name)

Dex_from_str(name) == CHOOSE member \in Dex : LowerDex(member) = LowerDex(name)

LiquidityPoolStatusAt(lp, iasset_balance, lp_token_circ_supply, lp_token_staked, timestamp) ==
    [lp |-> lp, iasset_balance |-> iasset_balance,
     lp_token_circ_supply |-> lp_token_circ_supply, lp_token_staked |-> lp_token_staked,
     timestamp |-> timestamp]

muesliswap_lp_v2_policy == "af3d70acf4bd5b3abb319a7d75c89fb3e56eafcdd46b2e9b57a2557f"
muesli_last_day == Date(2023, 5, 30)
Lovelace == <<"lovelace">>

\* datetime.datetime.utcfromtimestamp(timestamp).date()
utc_date(timestamp) == Date(1970, 1, 1) + timestamp \div SecondsPerDay

\* x["for"].endswith(" Token Locked"), on the words of the description
EndsWithTokenLocked(words) ==
    Len(words) >= 3 /\ SubSeq(words, Len(words) - 1, Len(words)) = <<"Token", "Locked">>

_get_entries_for_day(with_future, day) ==
    LET day_only == SelectSeq(with_future,
                        LAMBDA x : x.timestamp < get_snapshot_unix_time(day) + 20 * 3600)
    IN  \* "Date in entry doesn't match requested date"
        IF \E i \in 1..Len(day_only) : utc_date(day_only[i].timestamp) # day THEN Raised
        ELSE Returned(day_only)

RECURSIVE Concat(_)
Concat(lists) == IF lists = <<>> THEN <<>> ELSE Head(lists) \o Concat(Tail(lists))

\* The elements unify_lp_info appends for one balance entry
unified_of(liquidity_pool, lp_token) ==
    LET matching == SelectSeq(liquidity_pool, LAMBDA pool : lp_token.lp_token = pool.token)
    IN  [j \in 1..Len(matching) |->
            [assetA |-> from_str(matching[j].assetA), assetB |-> matching[j].assetB,
             exchange |-> matching[j].exchange, timestamp |-> lp_token.timestamp,
             token |-> lp_token.lp_token, amount |-> lp_token.amount]]

unify_lp_info(liquidity_pool, dex_iassets) ==
    \* IAsset.from_str(pool["assetA"]): ValueError
    IF \E i \in 1..Len(dex_iassets) : \E j \in 1..Len(liquidity_pool) :
            /\ dex_iassets[i].lp_token = liquidity_pool[j].token
            /\ from_str_raises(liquidity_pool[j].assetA)
    THEN Raised
    ELSE Returned(Concat([i \in 1..Len(dex_iassets) |->
                            unified_of(liquidity_pool, dex_iassets[i])]))

\* _fetch_lp_statuses from mixed_stuff on
dex_iassets_of(liquidity_pools, mixed_stuff) ==
    IF mixed_stuff.raised THEN Raised
    ELSE unify_lp_info(liquidity_pools,
            SelectSeq(mixed_stuff.val,
                      LAMBDA x : x.lp_token # <<>> /\ ~EndsWithTokenLocked(x.for)))

_fetch_lp_statuses(day, liquidity_pools, locked_asset) ==
    dex_iassets_of(liquidity_pools, _get_entries_for_day(locked_asset, day))

\* The body of the loop of to_dict: owner_dict[k] = int(v) for every key of
\* the record but "lovelace"
put_values(out_dict, acc) ==
    IF DOMAIN acc.value \ {Lovelace} = {} THEN out_dict
    ELSE [owner \in DOMAIN out_dict \cup {acc.owner} |->
            IF owner # acc.owner THEN out_dict[owner]
            ELSE [k \in (IF owner \in DOMAIN out_dict THEN DOMAIN out_dict[owner] ELSE {})
                        \cup (DOMAIN acc.value \ {Lovelace}) |->
                    IF k \in DOMAIN acc.value THEN acc.value[k] ELSE out_dict[owner][k]]]

RECURSIVE to_dict(_, _)
to_dict(out_dict, account_list) ==
    IF account_list = <<>> THEN out_dict
    ELSE to_dict(put_values(out_dict, Head(account_list)), Tail(account_list))

\* staked_lp_tokens_raw is what raw_api.liquidity_positions(unix_time) answers
_fetch_account_staked_lp_tokens(staked_lp_tokens_raw) == to_dict(<<>>, staked_lp_tokens_raw)

\* The sum of the token's counts over the accounts that have it
RECURSIVE staked_of_token(_, _, _)
staked_of_token(per_account_staked, accounts, token_id) ==
    IF accounts = {} THEN 0
    ELSE LET account == CHOOSE account \in accounts : TRUE
         IN  (IF token_id \in DOMAIN per_account_staked[account]
              THEN per_account_staked[account][token_id] ELSE 0)
             + staked_of_token(per_account_staked, accounts \ {account}, token_id)

get_staked_lp_token_supplies(per_account_staked) ==
    [token_id \in UNION {DOMAIN per_account_staked[account] :
                            account \in DOMAIN per_account_staked} |->
        staked_of_token(per_account_staked, DOMAIN per_account_staked, token_id)]

\* _validate_staked_lp_tokens never raising
validate_staked_lp_tokens_raises_never(unified_lp_info, lp_staked) == FALSE

\* "Token IDs don't match for known LP tokens vs staked LP tokens"
_validate_staked_lp_tokens_raises(unified_lp_info, lp_staked) ==
    {unified_lp_info[i].token : i \in 1..Len(unified_lp_info)} # DOMAIN lp_staked

\* Whether the body of the loop of get_lp_status raises for lp
lp_status_raises(lp, day, with_lp_token_supplies, lp_token_circ_supplies, lp_token_staked_supplies) ==
    \/ lp.assetA = "ADA"
    \/ lp.assetB # "ADA"
    \* "LP entry's date doesn't match requested date"
    \/ utc_date(lp.timestamp) # day
    \* lp_token_circ_supplies[lp["token"]], lp_token_staked_supplies[lp["token"]]: KeyError
    \/ /\ with_lp_token_supplies
       /\ \/ lp.token \notin DOMAIN lp_token_circ_supplies
          \/ lp.token \notin DOMAIN lp_token_staked_supplies
    \* "More staked LP tokens ... than circulating supply ..."
    \/ /\ with_lp_token_supplies
       /\ lp.token \in DOMAIN lp_token_circ_supplies
       /\ lp.token \in DOMAIN lp_token_staked_supplies
       /\ lp_token_staked_supplies[lp.token] > lp_token_circ_supplies[lp.token]
    \/ Dex_from_str_raises(lp.exchange)

\* new_status of the loop of get_lp_status
new_status_of(lp, with_lp_token_supplies, lp_token_circ_supplies, lp_token_staked_supplies) ==
    LiquidityPoolStatusAt(
        LiquidityPool(Dex_from_str(lp.exchange), lp.assetA, lp.assetB, lp.token),
        Rat(lp.amount, 1000000),
        IF with_lp_token_supplies THEN <<lp_token_circ_supplies[lp.token]>> ELSE <<>>,
        IF with_lp_token_supplies THEN <<lp_token_staked_supplies[lp.token]>> ELSE <<>>,
        lp.timestamp)

\* get_lp_status returning the pools of all dexes on every day
get_lp_status_with_muesliswap(day, with_lp_token_supplies, unified_lp_info, lp_token_circ_supplies, lp_token_staked_supplies) ==
    IF unified_lp_info.raised THEN Raised
    ELSE IF /\ with_lp_token_supplies
            /\ _validate_staked_lp_tokens_raises(unified_lp_info.val, lp_token_staked_supplies)
    THEN Raised
    ELSE IF \E i \in 1..Len(unified_lp_info.val) :
                lp_status_raises(unified_lp_info.val[i], day, with_lp_token_supplies,
                                 lp_token_circ_supplies, lp_token_staked_supplies)
    THEN Raised
    ELSE Returned([i \in 1..Len(unified_lp_info.val) |->
                    new_status_of(unified_lp_info.val[i], with_lp_token_supplies,
                                  lp_token_circ_supplies, lp_token_staked_supplies)])

\* The last lines of get_lp_status: MuesliSwap is delisted after 2023-05-30
without_delisted(day, pools) ==
    IF pools.raised THEN Raised
    ELSE IF day > Date(2023, 5, 30)
    THEN Returned(SelectSeq(pools.val, LAMBDA x : LowerDex(x.lp.dex) # "muesliswap"))
    ELSE pools

\* unified_lp_info is what _fetch_lp_statuses(day) returns or raises
get_lp_status(day, with_lp_token_supplies, unified_lp_info, lp_token_circ_supplies, lp_token_staked_supplies) ==
    without_delisted(day,
        get_lp_status_with_muesliswap(day, with_lp_token_supplies, unified_lp_info,
                                      lp_token_circ_supplies, lp_token_staked_supplies))

\* The staker and token pairs that _organize_staked_lp_tokens does not skip
kept_tokens(staked_lp_tokens, day) ==
    {pair \in UNION {{<<staker, token>> : token \in DOMAIN staked_lp_tokens[staker]} :
                        staker \in DOMAIN staked_lp_tokens} :
        ~(pair[2][1] = muesliswap_lp_v2_policy /\ day > muesli_last_day)}

\* _get_lp_for_token raises "LP not found for LP token ..."
get_lp_for_token_raises(token, lps) == \A i \in 1..Len(lps) : lps[i].lp_token_id # token

_get_lp_for_token(token, lps) ==
    lps[CHOOSE i \in 1..Len(lps) :
            /\ lps[i].lp_token_id = token
            /\ \A j \in 1..(i - 1) : lps[j].lp_token_id # token]

\* The loops of _organize_staked_lp_tokens, given lps and the pairs not skipped
staker_info_of(staked_lp_tokens, lps, kept) ==
    IF \E pair \in kept : get_lp_for_token_raises(pair[2], lps) THEN Raised
    ELSE Returned(
            [lp \in {_get_lp_for_token(pair[2], lps) : pair \in kept} |->
                [staker \in {pair[1] : pair \in {p \in kept : _get_lp_for_token(p[2], lps) = lp}} |->
                    staked_lp_tokens[staker][lp.lp_token_id]]])

_organize_staked_lp_tokens(staked_lp_tokens, lp_statuses) ==
    IF Len(lp_statuses) < 1 THEN Returned(<<>>)
    \* "LP status dates don't match"
    ELSE IF \E i \in 1..Len(lp_statuses) :
                utc_date(lp_statuses[i].timestamp) # utc_date(lp_statuses[1].timestamp)
    THEN Raised
    ELSE staker_info_of(staked_lp_tokens,
                        [i \in 1..Len(lp_statuses) |-> lp_statuses[i].lp],
                        kept_tokens(staked_lp_tokens, utc_date(lp_statuses[1].timestamp)))

\* get_account_staked_lp_tokens, given staked_lp and dexes
get_account_staked_lp_tokens(staked_lp, dexes) ==
    IF dexes.raised THEN Raised
    ELSE _organize_staked_lp_tokens(staked_lp, dexes.val)

\* The data of a day: the day MuesliSwap is listed last and the day after;
\* three whitelisted pools, the third with ADA or with another asset as its
\* second; a balance entry of the first pool at 21:46 of the day, at 00:45
\* of the next day or at 21:46 of the next day, and of the other two pools
\* at 21:46 or none; an entry of locked WingRiders tokens; accounts A and B
\* with liquidity positions, A with one token in two records; circulating
\* supplies of 4 of each token, or of two of them.
PoolsDays == {Date(2023, 5, 30), Date(2023, 5, 31)}
MinswapPolicy == "e4214b7cce62ac6fbba385d164df48e157eae5863521b4b67ca71d86"
WingRidersPolicy == "026a18d04a0c642759bb3d83b12e3344894e5c1c7b2aeb1a2113a570"
TokenMinswap == <<MinswapPolicy, "iusd_ada">>
TokenMuesliSwap == <<muesliswap_lp_v2_policy, "iusd_ada">>
TokenWingRiders == <<WingRidersPolicy, "ibtc_ada">>
WhitelistedPool(token, assetA, assetB, exchange) ==
    [token |-> token, assetA |-> assetA, assetB |-> assetB, exchange |-> exchange]
PoolsLiquidityPools ==
    { <<WhitelistedPool(TokenMinswap, "iUSD", "ADA", "Minswap"),
        WhitelistedPool(TokenMuesliSwap, "iUSD", "ADA", "MuesliSwap"),
        WhitelistedPool(TokenWingRiders, "iBTC", other, "WingRiders")>> : other \in {"ADA", "iUSD"} }
BalanceEntry(token, timestamp) ==
    [lp_token |-> token, for |-> <<"iAsset", "balance">>, timestamp |-> timestamp,
     amount |-> 2000000]
LockedEntry(timestamp) ==
    [lp_token |-> <<>>, for |-> <<"WingRiders", "Token", "Locked">>, timestamp |-> timestamp,
     amount |-> 7]
PoolsEntryTimes(day) ==
    {get_snapshot_unix_time(day) + 60, get_snapshot_unix_time(day) + 3 * 3600,
     get_snapshot_unix_time(day) + SecondsPerDay + 60}
PoolsLockedAsset(day) ==
    { <<BalanceEntry(TokenMinswap, time)>>
      \o (IF muesliswap THEN <<BalanceEntry(TokenMuesliSwap, get_snapshot_unix_time(day) + 60)>>
          ELSE <<>>)
      \o (IF wingriders THEN <<BalanceEntry(TokenWingRiders, get_snapshot_unix_time(day) + 60)>>
          ELSE <<>>)
      \o <<LockedEntry(get_snapshot_unix_time(day) + 60)>> :
        time \in PoolsEntryTimes(day), muesliswap \in BOOLEAN, wingriders \in BOOLEAN }
Position(owner, value) == [owner |-> owner, value |-> value]
PoolsPositions ==
    { <<Position("A", TokenMinswap :> 3 @@ Lovelace :> 5),
        Position("B", TokenMinswap :> 1 @@ TokenMuesliSwap :> 2),
        Position("A", TokenWingRiders :> 2)>>,
      <<Position("A", TokenMinswap :> 3), Position("A", TokenMinswap :> 1),
        Position("B", TokenMuesliSwap :> 2), Position("B", TokenWingRiders :> 2)>>,
      <<Position("A", TokenMinswap :> 3), Position("B", TokenWingRiders :> 1)>>,
      <<Position("A", TokenMinswap :> 5), Position("B", TokenMuesliSwap :> 2),
        Position("B", TokenWingRiders :> 2)>> }
PoolsCirculating ==
    { TokenMinswap :> 4 @@ TokenMuesliSwap :> 4 @@ TokenWingRiders :> 4,
      TokenMinswap :> 4 @@ TokenWingRiders :> 4 }

IdlePools ==
    /\ d_day = 0
    /\ d_liquidity_pools = <<>>
    /\ d_locked_asset = <<>>
    /\ d_positions = <<>>
    /\ d_circ = <<>>
    /\ d_with = FALSE
    /\ d_info = Raised
    /\ d_status = "idle"
    /\ d_ret = <<>>
    /\ d_staked_status = "idle"
    /\ d_staker_info = <<>>
    /\ d_supplies_status = "idle"
    /\ d_supplies = <<>>

InputsPools ==
    /\ d_day \in PoolsDays
    /\ d_liquidity_pools \in PoolsLiquidityPools
    /\ d_locked_asset \in PoolsLockedAsset(d_day)
    /\ d_positions \in PoolsPositions
    /\ d_circ \in PoolsCirculating
    /\ d_with = FALSE
    /\ d_info = Raised
    /\ d_status = "idle"
    /\ d_ret = <<>>
    /\ d_staked_status = "idle"
    /\ d_staker_info = <<>>
    /\ d_supplies_status = "idle"
    /\ d_supplies = <<>>

\* get_lp_status(day, with_lp_token_supplies)
GetLpStatusCall ==
    /\ d_status = "idle"
    /\ \E with_lp_token_supplies \in BOOLEAN :
       \E unified_lp_info \in {_fetch_lp_statuses(d_day, d_liquidity_pools, d_locked_asset)} :
       \E pools \in {get_lp_status(d_day, with_lp_token_supplies, unified_lp_info, d_circ,
                        get_staked_lp_token_supplies(
                            _fetch_account_staked_lp_tokens(d_positions)))} :
          /\ d_with' = with_lp_token_supplies
          /\ d_info' = unified_lp_info
          /\ d_status' = IF pools.raised THEN "raise" ELSE "return"
          /\ d_ret' = pools.val
    /\ UNCHANGED <<d_day, d_liquidity_pools, d_locked_asset, d_positions, d_circ,
                   d_staked_status, d_staker_info, d_supplies_status, d_supplies>>
    /\ UNCHANGED exceptPools

\* get_staked_lp_token_supplies(day)
GetStakedLpTokenSuppliesCall ==
    /\ d_supplies_status = "idle"
    /\ d_supplies_status' = "return"
    /\ d_supplies' = get_staked_lp_token_supplies(_fetch_account_staked_lp_tokens(d_positions))
    /\ UNCHANGED <<d_day, d_liquidity_pools, d_locked_asset, d_positions, d_circ, d_with,
                   d_info, d_status, d_ret, d_staked_status, d_staker_info>>
    /\ UNCHANGED exceptPools

\* get_account_staked_lp_tokens(day)
GetAccountStakedLpTokensCall ==
    /\ d_staked_status = "idle"
    /\ \E staker_info \in
            {get_account_staked_lp_tokens(
                _fetch_account_staked_lp_tokens(d_positions),
                get_lp_status(d_day, FALSE,
                              _fetch_lp_statuses(d_day, d_liquidity_pools, d_locked_asset),
                              <<>>, <<>>))} :
          /\ d_staked_status' = IF staker_info.raised THEN "raise" ELSE "return"
          /\ d_staker_info' = staker_info.val
    /\ UNCHANGED <<d_day, d_liquidity_pools, d_locked_asset, d_positions, d_circ, d_with,
                   d_info, d_status, d_ret, d_supplies_status, d_supplies>>
    /\ UNCHANGED exceptPools

NextPools == GetLpStatusCall \/ GetStakedLpTokenSuppliesCall \/ GetAccountStakedLpTokensCall

---------------------------------------------------------------------------
(* summary.py: get_summary.  A purpose string is the sequence of its words, *)
(* which single spaces separate.                                            *)

Row(purpose, amount) == [Purpose |-> purpose, Amount |-> amount]

\* A lovelace amount <<whole INDY, lovelaces below one INDY>> / 1e6
lovelaces_to_indy(lovelaces) ==
    RAdd(<<lovelaces[1], 1>>, Rat(lovelaces[2], LovelacesPerIndy))

\* _split_purpose putting every purpose in a group of its own.
split_purpose_unsplit(purpose) == [main |-> purpose, details |-> <<>>]

\* details is <<>> for None
split_purpose(purpose) ==
    IF Len(purpose) >= 4 /\ SubSeq(purpose, 1, 3) = <<"Reward", "for", "providing">>
    THEN [main |-> <<"LP", "reward">>,
          details |-> <<purpose[4], "on", purpose[Len(purpose)]>>]
    ELSE IF Len(purpose) >= 4 /\ SubSeq(purpose, 1, 3) = <<"SP", "reward", "for">>
    THEN [main |-> <<"SP", "reward">>, details |-> SubSeq(purpose, 4, Len(purpose))]
    ELSE [main |-> purpose, details |-> <<>>]

\* The purposes the call is tried on, and the group names they split into,
\* each list in ascending string order (the order groupby sorts its keys in).
SummaryPurposes ==
    << <<"Airdrop">>,
       <<"INDY", "staking", "reward">>,
       <<"Reward", "for", "providing", "iBTC", "liquidity", "on", "Minswap">>,
       <<"Reward", "for", "providing", "iUSD", "liquidity", "on", "WingRiders">>,
       <<"SP", "reward", "for", "iBTC">>,
       <<"SP", "reward", "for", "iUSD">> >>
SummaryGroups ==
    << <<"Airdrop">>, <<"INDY", "staking", "reward">>, <<"LP", "reward">>,
       <<"SP", "reward">> >>

\* df.groupby(by=key)[...].sum(): the keys that occur, in ascending order
sorted_keys(keys, ascending) == SelectSeq(ascending, LAMBDA key : key \in keys)

\* summary: one row per Purpose, the summed lovelaces / 1e6
summary_of(rewards) ==
    LET purposes == sorted_keys({rewards[i].description : i \in 1..Len(rewards)},
                                SummaryPurposes)
    IN  [n \in 1..Len(purposes) |->
            Row(purposes[n],
                lovelaces_to_indy(SumLovelaces(
                    SelectSeq(rewards, LAMBDA x : x.description = purposes[n]))))]

\* sum of the Amount column
RECURSIVE sum_amounts(_)
sum_amounts(rows) ==
    IF rows = <<>> THEN Zero ELSE RAdd(Head(rows).Amount, sum_amounts(Tail(rows)))

add_totals(summary) ==
    LET mains == sorted_keys({split_purpose(summary[i].Purpose).main :
                                  i \in 1..Len(summary)}, SummaryGroups)
        group_totals ==
            [n \in 1..Len(mains) |->
                Row(<<"Total">> \o mains[n],
                    sum_amounts(SelectSeq(summary,
                        LAMBDA row : split_purpose(row.Purpose).main = mains[n])))]
        full_total == sum_amounts(summary)
    IN  summary \o group_totals \o <<Row(<<"Total">>, full_total)>>

get_summary(rewards, with_totals) ==
    \* df.empty
    IF rewards = <<>> THEN <<>>
    ELSE IF with_totals THEN add_totals(summary_of(rewards))
    ELSE summary_of(rewards)

\* The rewards: up to MaxRewards of them, of 1 or 1/3 INDY each.
MaxRewards == 3
SummaryIndy == {One, Rat(1, 3)}
SummaryRewards ==
    {IndividualReward(indy, Date(2023, 3, 1), "A", get_reward_expiration(Date(2023, 3, 1)),
                      SummaryPurposes[n]) :
        indy \in SummaryIndy, n \in 1..Len(SummaryPurposes)}

IdleSummary ==
    /\ u_rewards = <<>>
    /\ u_with_totals = FALSE
    /\ u_status = "idle"
    /\ u_ret = <<>>

InputsSummary ==
    /\ u_rewards \in UNION {[1..n -> SummaryRewards] : n \in 0..MaxRewards}
    /\ u_with_totals \in BOOLEAN
    /\ u_status = "idle"
    /\ u_ret = <<>>

\* summary.get_summary(rewards, with_totals)
GetSummaryCall ==
    /\ u_status = "idle"
    /\ u_status' = "return"
    /\ u_ret' = get_summary(u_rewards, u_with_totals)
    /\ UNCHANGED <<u_rewards, u_with_totals>>
    /\ UNCHANGED exceptSummary

NextSummary == GetSummaryCall

---------------------------------------------------------------------------
(* The specifications: one per component, the other components idle. *)

InitTime == IdleTime /\ IdleWeights /\ IdleK /\ IdleProRata /\ IdleLp /\ IdleSp /\ IdleEpoch /\ IdleMarketCaps /\ IdleClosingPrices /\ IdleSummary /\ IdleAssetWeight /\ IdleRule /\ IdleAll /\ IdleApr /\ IdleVolatility /\ IdlePools

SpecTime == InitTime /\ [][NextTime]_vars

InitWeights == IdleTime /\ InputsWeights /\ IdleK /\ IdleProRata /\ IdleLp /\ IdleSp /\ IdleEpoch /\ IdleMarketCaps /\ IdleClosingPrices /\ IdleSummary /\ IdleAssetWeight /\ IdleRule /\ IdleAll /\ IdleApr /\ IdleVolatility /\ IdlePools

SpecWeights == InitWeights /\ [][NextWeights]_vars

InitK == IdleTime /\ IdleWeights /\ InputsK /\ IdleProRata /\ IdleLp /\ IdleSp /\ IdleEpoch /\ IdleMarketCaps /\ IdleClosingPrices /\ IdleSummary /\ IdleAssetWeight /\ IdleRule /\ IdleAll /\ IdleApr /\ IdleVolatility /\ IdlePools

SpecK == InitK /\ [][NextK]_vars

InitProRata == IdleTime /\ IdleWeights /\ IdleK /\ InputsProRata /\ IdleLp /\ IdleSp /\ IdleEpoch /\ IdleMarketCaps /\ IdleClosingPrices /\ IdleSummary /\ IdleAssetWeight /\ IdleRule /\ IdleAll /\ IdleApr /\ IdleVolatility /\ IdlePools

SpecProRata == InitProRata /\ [][NextProRata]_vars

InitLp == IdleTime /\ IdleWeights /\ IdleK /\ IdleProRata /\ InputsLp /\ IdleSp /\ IdleEpoch /\ IdleMarketCaps /\ IdleClosingPrices /\ IdleSummary /\ IdleAssetWeight /\ IdleRule /\ IdleAll /\ IdleApr /\ IdleVolatility /\ IdlePools

SpecLp == InitLp /\ [][NextLp]_vars

InitSp == IdleTime /\ IdleWeights /\ IdleK /\ IdleProRata /\ IdleLp /\ InputsSp /\ IdleEpoch /\ IdleMarketCaps /\ IdleClosingPrices /\ IdleSummary /\ IdleAssetWeight /\ IdleRule /\ IdleAll /\ IdleApr /\ IdleVolatility /\ IdlePools

SpecSp == InitSp /\ [][NextSp]_vars

InitEpoch == IdleTime /\ IdleWeights /\ IdleK /\ IdleProRata /\ IdleLp /\ IdleSp /\ InputsEpoch /\ IdleMarketCaps /\ IdleClosingPrices /\ IdleSummary /\ IdleAssetWeight /\ IdleRule /\ IdleAll /\ IdleApr /\ IdleVolatility /\ IdlePools

SpecEpoch == InitEpoch /\ [][NextEpoch]_vars

InitMarketCaps == IdleTime /\ IdleWeights /\ IdleK /\ IdleProRata /\ IdleLp /\ IdleSp /\ IdleEpoch /\ InputsMarketCaps /\ IdleClosingPrices /\ IdleSummary /\ IdleAssetWeight /\ IdleRule /\ IdleAll /\ IdleApr /\ IdleVolatility /\ IdlePools

SpecMarketCaps == InitMarketCaps /\ [][NextMarketCaps]_vars

InitClosingPrices == IdleTime /\ IdleWeights /\ IdleK /\ IdleProRata /\ IdleLp /\ IdleSp /\ IdleEpoch /\ IdleMarketCaps /\ InputsClosingPrices /\ IdleSummary /\ IdleAssetWeight /\ IdleRule /\ IdleAll /\ IdleApr /\ IdleVolatility /\ IdlePools

SpecClosingPrices == InitClosingPrices /\ [][NextClosingPrices]_vars

InitAssetWeight == IdleTime /\ IdleWeights /\ IdleK /\ IdleProRata /\ IdleLp /\ IdleSp /\ IdleEpoch /\ IdleMarketCaps /\ IdleClosingPrices /\ IdleSummary /\ InputsAssetWeight /\ IdleRule /\ IdleAll /\ IdleApr /\ IdleVolatility /\ IdlePools

SpecAssetWeight == InitAssetWeight /\ [][NextAssetWeight]_vars

InitRule == IdleTime /\ IdleWeights /\ IdleK /\ IdleProRata /\ IdleLp /\ IdleSp /\ IdleEpoch /\ IdleMarketCaps /\ IdleClosingPrices /\ IdleSummary /\ IdleAssetWeight /\ IdleRule /\ IdleAll /\ IdleApr /\ IdleVolatility /\ IdlePools

SpecRule == InitRule /\ [][NextRule]_vars

InitAll == IdleTime /\ IdleWeights /\ IdleK /\ IdleProRata /\ IdleLp /\ IdleSp /\ IdleEpoch /\ IdleMarketCaps /\ IdleClosingPrices /\ IdleSummary /\ IdleAssetWeight /\ IdleRule /\ InputsAll /\ IdleApr /\ IdleVolatility /\ IdlePools

SpecAll == InitAll /\ [][NextAll]_vars

InitApr == IdleTime /\ IdleWeights /\ IdleK /\ IdleProRata /\ IdleLp /\ IdleSp /\ IdleEpoch /\ IdleMarketCaps /\ IdleClosingPrices /\ IdleSummary /\ IdleAssetWeight /\ IdleRule /\ IdleAll /\ InputsApr /\ IdleVolatility /\ IdlePools

SpecApr == InitApr /\ [][NextApr]_vars

InitVolatility == IdleTime /\ IdleWeights /\ IdleK /\ IdleProRata /\ IdleLp /\ IdleSp /\ IdleEpoch /\ IdleMarketCaps /\ IdleClosingPrices /\ IdleSummary /\ IdleAssetWeight /\ IdleRule /\ IdleAll /\ IdleApr /\ InputsVolatility /\ IdlePools

SpecVolatility == InitVolatility /\ [][NextVolatility]_vars

InitPools == IdleTime /\ IdleWeights /\ IdleK /\ IdleProRata /\ IdleLp /\ IdleSp /\ IdleEpoch /\ IdleMarketCaps /\ IdleClosingPrices /\ IdleSummary /\ IdleAssetWeight /\ IdleRule /\ IdleAll /\ IdleApr /\ IdleVolatility /\ InputsPools

SpecPools == InitPools /\ [][NextPools]_vars

InitSummary == IdleTime /\ IdleWeights /\ IdleK /\ IdleProRata /\ IdleLp /\ IdleSp /\ IdleEpoch /\ IdleMarketCaps /\ IdleClosingPrices /\ InputsSummary /\ IdleAssetWeight /\ IdleRule /\ IdleAll /\ IdleApr /\ IdleVolatility /\ IdlePools

SpecSummary == InitSummary /\ [][NextSummary]_vars

\* The computations that join dicts by their asset keys: a run calls one of
\* them, the others stay as they are.
InitJoins ==
    \/ InitWeights /\ w_day < Date(2023, 11, 6)   \* the legacy weights
    \/ InitK
    \/ InitLp
    \/ InitMarketCaps

NextJoins ==
    \/ IdleK /\ IdleLp /\ IdleMarketCaps /\ NextWeights
    \/ IdleWeights /\ IdleLp /\ IdleMarketCaps /\ NextK
    \/ IdleWeights /\ IdleK /\ IdleMarketCaps /\ NextLp
    \/ IdleWeights /\ IdleK /\ IdleLp /\ NextMarketCaps

SpecJoins == InitJoins /\ [][NextJoins]_vars

---------------------------------------------------------------------------
\* C9: for every epoch e, date_to_epoch(get_epoch_end_date(e)) = e: the
\* epoch of the date get_epoch_end_date returned is the epoch asked for.
C9_EndDateRoundTrip ==
    (t_call = "get_epoch_end_date") => (date_to_epoch(t_ret) = t_arg)

C9_Witness ==
    /\ t_call = "get_epoch_end_date"
    /\ t_arg = 400
    /\ t_ret = Date(2023, 3, 21)
    /\ date_to_epoch(t_ret) = 400

\* C10: date_to_epoch(d) is floor(((d - 2017-09-23) in days - 1) / 5), that
\* is 5*epoch + 1 <= d - ref <= 5*epoch + 5; get_epoch_end_date(e) is
\* 2017-09-23 + (e+1)*5 days; an epoch's end date is in that epoch and the
\* next calendar day is in the next epoch; 2023-03-21 is in epoch 400,
\* 2023-03-22 in epoch 401, and epoch 401 ends on 2023-03-26.
C10_EpochArithmetic ==
    /\ (t_call = "date_to_epoch") =>
          /\ 5 * t_ret + 1 <= t_arg - Date(2017, 9, 23)
          /\ t_arg - Date(2017, 9, 23) <= 5 * t_ret + 5
          /\ (t_arg = Date(2023, 3, 21)) => (t_ret = 400)
          /\ (t_arg = Date(2023, 3, 22)) => (t_ret = 401)
    /\ (t_call = "get_epoch_end_date") =>
          /\ t_ret = Date(2017, 9, 23) + (t_arg + 1) * 5
          /\ (t_arg = 401) => (t_ret = Date(2023, 3, 26))
          /\ date_to_epoch(t_ret) = t_arg
          /\ date_to_epoch(t_ret + 1) = t_arg + 1

C10_Witness ==
    /\ t_call = "date_to_epoch"
    /\ t_arg = Date(2023, 3, 22)
    /\ t_ret = 401

\* C1: whenever sp.get_pool_weights returns a weight map (hard-coded table
\* or legacy formula), the returned weights sum to 1 within 1e-8.
C1_WeightsSumToOne ==
    (w_status = "return") => ~FarFromOne(RSum(w_ret, DOMAIN w_ret))

\* The table the claim of C2 expects for a day on or after 2023-11-06: that
\* of the most recent effective date that is <= day.
C2_ExpectedTable(day) ==
    IF day >= Date(2024, 12, 5)
    THEN [a \in {"iBTC", "iETH", "iUSD", "iSOL"} |->
            CASE a = "iBTC" -> Rat(360619, 2118977)
              [] a = "iETH" -> Rat(117691, 2118977)
              [] a = "iUSD" -> Rat(1540667, 2118977)
              [] a = "iSOL" -> Rat(100000, 2118977)]
    ELSE IF day >= Date(2024, 11, 26)
    THEN [a \in {"iBTC", "iETH", "iUSD", "iSOL"} |->
            CASE a = "iBTC" -> Rat(246929, 1966435)
              [] a = "iETH" -> Rat(150489, 1966435)
              [] a = "iUSD" -> Rat(1469017, 1966435)
              [] a = "iSOL" -> Rat(100000, 1966435)]
    ELSE IF day >= Date(2024, 7, 14)
    THEN [a \in {"iBTC", "iETH", "iUSD"} |->
            CASE a = "iBTC" -> Rat(246929, 1866435)
              [] a = "iETH" -> Rat(150489, 1866435)
              [] a = "iUSD" -> Rat(1469017, 1866435)]
    ELSE [a \in {"iBTC", "iETH", "iUSD"} |->
            CASE a = "iBTC" -> Rat(3668, 22431)
              [] a = "iETH" -> Rat(3188, 22431)
              [] a = "iUSD" -> Rat(15574, 22431)]

\* C2: for every day on or after 2023-11-06 get_pool_weights returns,
\* without raising and whatever the other inputs, the hard-coded table of
\* the most recent effective date <= day; for every earlier day it gives what
\* the legacy formula gives.
C2_TableByDate ==
    (w_status # "idle") =>
        IF w_day >= Date(2023, 11, 6)
        THEN w_status = "return" /\ w_ret = C2_ExpectedTable(w_day)
        ELSE LET legacy == get_pool_weights_before_epoch_448(
                               w_sat, w_mcap, w_day, w_new, w_hs, w_vol)
             IN  /\ (w_status = "raise") = legacy.raised
                 /\ w_ret = legacy.val

\* C8: _calculate_k with budget 4795, saturations {iUSD: 0.6, iETH: 0.7,
\* iBTC: 0.8}, prices {iBTC: 60000, iUSD: 2.7, iETH: 4000} and supplies
\* {iETH: 1200, iUSD: 4000000, iBTC: 80} returns {iUSD: 437.49,
\* iETH: 270.37, iBTC: 250.65} within 0.01 per asset.
C8_Expected ==
    [asset \in IAsset |-> CASE asset = "iUSD" -> Rat(43749, 100)
                            [] asset = "iETH" -> Rat(27037, 100)
                            [] asset = "iBTC" -> Rat(25065, 100)]

C8_IsExample ==
    /\ k_a = <<4795, 1>>
    /\ k_b = ExampleSaturations
    /\ k_c = ExamplePrices
    /\ k_d = ExampleSupplies

C8_WhitepaperExample ==
    (k_status # "idle" /\ C8_IsExample) =>
        /\ k_status = "return"
        /\ DOMAIN k_ret = IAsset
        /\ \A asset \in IAsset :
              LET diff == RSub(k_ret[asset], C8_Expected[asset])
              IN  RLe(<<Abs(diff[1]), diff[2]>>, Rat(1, 100))

\* C5: whenever _pro_rata_distribute(total, accounts, day, comment) returns,
\* it returns exactly one IndividualReward per account key, with
\* indy = total * weight / sum(weights), and the rewards sum to total; for
\* total = 100 and weights {A: 1, B: 3} it returns and the rewards are
\* exactly {A: 25, B: 75}.
C5_OnePerKey ==
    /\ Len(p_ret) = Cardinality(DOMAIN p_accounts)
    /\ \A owner \in DOMAIN p_accounts :
          \E i \in 1..Len(p_ret) :
              /\ p_ret[i].pkh = owner
              /\ p_ret[i].indy =
                    RDiv(RMul(p_indy, p_accounts[owner]), RSum(p_accounts, DOMAIN p_accounts))

C5_IsExample ==
    /\ p_indy = <<100, 1>>
    /\ p_accounts = [owner \in {"A", "B"} |-> IF owner = "A" THEN One ELSE <<3, 1>>]

C5_ProRata ==
    /\ (p_status = "return") => (C5_OnePerKey /\ SumIndy(p_ret) = p_indy)
    /\ (p_status # "idle" /\ C5_IsExample) =>
            /\ p_status = "return"
            /\ {<<p_ret[i].pkh, p_ret[i].indy>> : i \in 1..Len(p_ret)} =
                    {<<"A", <<25, 1>>>>, <<"B", <<75, 1>>>>}

C5_Witness ==
    /\ C5_IsExample
    /\ p_status = "return"
    /\ Len(p_ret) = 2

\* C6: for every IAssetReward passed to distribute_to_liquidity_pools, each
\* liquidity pool of that asset receives indy = asset budget * (pool iAsset
\* balance / total iAsset balance over all that asset's pools), and the pool
\* rewards produced for the asset sum to the asset's allocated budget.
C6_GroupShares(iasset_reward) ==
    LET group == SelectSeq(l_statuses, LAMBDA st : st.lp.iasset = iasset_reward.iasset)
        total == RSumSeq([j \in 1..Len(group) |-> group[j].iasset_balance])
        produced == SelectSeq(l_pool_rewards, LAMBDA pr : pr.lp.iasset = iasset_reward.iasset)
    IN  /\ Len(produced) = Len(group)
        /\ \A j \in 1..Len(group) :
              /\ produced[j].lp = group[j].lp
              /\ produced[j].indy =
                    RMul(iasset_reward.indy, RDiv(group[j].iasset_balance, total))
        /\ SumIndy(produced) = iasset_reward.indy

C6_PoolShares ==
    /\ l_pools_status # "raise"
    /\ (l_pools_status = "return") =>
            \A i \in 1..Len(l_iasset_rewards) : C6_GroupShares(l_iasset_rewards[i])

C6_Witness ==
    /\ l_pools_status = "return"
    /\ \E i, j \in 1..Len(l_pool_rewards) :
          /\ l_pool_rewards[i].lp.iasset = l_pool_rewards[j].lp.iasset
          /\ l_pool_rewards[i].indy # Zero
          /\ l_pool_rewards[j].indy = RMul(<<3, 1>>, l_pool_rewards[i].indy)

\* C4: for every pool reward of a day, whenever the per-account distribution
\* returns, the individual rewards produced for that pool sum to exactly
\* that pool's allocated indy budget, including when the pool has no staking
\* account (here for the LiquidityPoolRewards of lp.distribute_to_accounts).
C4_PoolBudgetDistributed ==
    (l_status = "return") =>
        \A i \in 1..Len(l_pool_rewards) :
            LET pr == l_pool_rewards[i]
                produced == SelectSeq(l_rewards, LAMBDA r : r.description = LpDescription(pr.lp))
            IN  SumIndy(produced) = pr.indy

\* C7: in sp.get_rewards_per_staker(day, ...) a stability pool account
\* receives a reward for that day only if opened_at + 24h <= the snapshot
\* instant (day at 21:45 UTC): an account opened exactly 24h before the
\* snapshot is included, one opened any later is excluded; the only exception
\* is that accounts of asset iSOL are always included for snapshot days before
\* 2024-11-27.
C7_Included(account) ==
    \/ account.opened_at + 24 * 3600 <= (s_day - Date(1970, 1, 1)) * 24 * 3600 + 21 * 3600 + 45 * 60
    \/ account.asset = "iSOL" /\ s_day < Date(2024, 11, 27)

C7_RewardOf(account, reward) ==
    /\ reward.pkh = account.owner
    /\ reward.description = <<"SP reward for", account.asset>>

C3_DiffersByMoreThanTolerance ==
    LET indy_sum == SumLovelaces(e_rewards)
        whole == e_epoch_indy[1] - indy_sum[1]
        diff == whole * LovelacesPerIndy - indy_sum[2]
    IN  Abs(whole) >= 2 \/ Abs(diff) * 100 > LovelacesPerIndy

C3_EpochSumChecked ==
    (e_status = "return") => ~C3_DiffersByMoreThanTolerance

\* C11: for every epoch e, get_epoch_snapshot_dates(e) returns exactly 5
\* dates, each the calendar day after the one before it (oldest first), the
\* last of them get_epoch_end_date(e).
C11_FiveConsecutiveDays ==
    (t_call = "get_epoch_snapshot_dates") =>
        /\ Len(t_ret) = 5
        /\ \A i \in 1..4 : t_ret[i + 1] = t_ret[i] + 1
        /\ t_ret[5] = get_epoch_end_date(t_arg)
        /\ t_ret[5] = Date(2017, 9, 23) + (t_arg + 1) * 5

C11_Witness ==
    /\ t_call = "get_epoch_snapshot_dates"
    /\ t_arg = 401
    /\ t_ret = <<Date(2023, 3, 22), Date(2023, 3, 23), Date(2023, 3, 24),
                 Date(2023, 3, 25), Date(2023, 3, 26)>>

\* C12: for every day d, get_reward_expiration(d) is 21:45 of the day 90
\* days after the end date of d's epoch, so every day of that epoch has the
\* same expiration; 2023-05-05 expires 2023-08-03 21:45, 2023-05-06 and
\* 2023-05-10 expire 2023-08-08 21:45.
C12_SameEpoch(day) ==
    {d \in (day - 5)..(day + 5) : date_to_epoch(d) = date_to_epoch(day)}

C12_RewardExpiration ==
    (t_call = "get_reward_expiration") =>
        /\ t_ret.hour = 21 /\ t_ret.minute = 45
        /\ t_ret.day = get_epoch_end_date(date_to_epoch(t_arg)) + 90
        /\ \E e \in (0 - EpochsBeforeRef - 1)..(EpochsAfterRef + 1) :
              /\ 5 * e + 1 <= t_arg - Date(2017, 9, 23)
              /\ t_arg - Date(2017, 9, 23) <= 5 * e + 5
              /\ t_ret.day = Date(2017, 9, 23) + 5 * (e + 1) + 90
        /\ Cardinality(C12_SameEpoch(t_arg)) = 5
        /\ \A d \in C12_SameEpoch(t_arg) : get_reward_expiration(d) = t_ret
        /\ (t_arg = Date(2023, 5, 5)) => (t_ret.day = Date(2023, 8, 3))
        /\ (t_arg = Date(2023, 5, 6)) => (t_ret.day = Date(2023, 8, 8))
        /\ (t_arg = Date(2023, 5, 10)) => (t_ret.day = Date(2023, 8, 8))

C12_Witness ==
    /\ t_call = "get_reward_expiration"
    /\ t_arg = Date(2023, 5, 10)
    /\ t_ret = [day |-> Date(2023, 8, 8), hour |-> 21, minute |-> 45]

\* C13: gov.get_epoch_rewards_per_staker(epoch, epoch_indy) rewards on the
\* epoch-end snapshot alone; with a snapshot date before 2023-05-20 there is
\* exactly one reward per distinct owner, of (the sum of the owner's
\* staked_indy) * epoch_indy / (the sum of all rows' staked_indy), and the
\* rewards add up to epoch_indy; with a snapshot date of 2023-05-20 or later
\* a duplicated owner makes the call raise, without rewards.
C13_Owners == {e_account_indy[i].owner : i \in 1..Len(e_account_indy)}

C13_Duplicated ==
    Cardinality(C13_Owners) < Len(e_account_indy)

C13_StakedBy(owners) ==
    SumStaked(SelectSeq(e_account_indy, LAMBDA row : row.owner \in owners))

C13_OnePerOwner ==
    /\ Len(e_rewards) = Cardinality(C13_Owners)
    /\ \A owner \in C13_Owners :
          \E i \in 1..Len(e_rewards) :
             /\ e_rewards[i].pkh = owner
             /\ e_rewards[i].day = get_epoch_end_date(e_epoch)
             /\ \A j \in 1..Len(e_rewards) : e_rewards[j].pkh = owner => j = i
             \* indy = staked by owner * epoch_indy / staked by all
             /\ e_rewards[i].indy[1] * e_epoch_indy[2] * (C13_StakedBy(C13_Owners) \div LovelacesPerIndy)
                  = (C13_StakedBy({owner}) \div LovelacesPerIndy) * e_epoch_indy[1] * e_rewards[i].indy[2]
    /\ SumIndy(e_rewards) = e_epoch_indy

C13_GovernanceRewards ==
    (e_category = "gov" /\ e_status # "running" /\ e_account_indy # <<>>) =>
        /\ (get_epoch_end_date(e_epoch) < Date(2023, 5, 20)) =>
              (e_status = "return" /\ C13_OnePerOwner)
        /\ (get_epoch_end_date(e_epoch) >= Date(2023, 5, 20) /\ C13_Duplicated) =>
              (e_status = "raise" /\ e_rewards = <<>>)
        /\ (e_status = "return") => C13_OnePerOwner

C13_Witness ==
    /\ e_category = "gov"
    /\ e_status = "return"
    /\ get_epoch_end_date(e_epoch) < Date(2023, 5, 20)
    /\ e_epoch_indy = <<2398, 1>>
    /\ C13_Duplicated
    /\ Cardinality(C13_Owners) = 2

C13_WitnessRaise ==
    /\ e_category = "gov"
    /\ e_status = "raise"
    /\ get_epoch_end_date(e_epoch) >= Date(2023, 5, 20)
    /\ C13_Duplicated

\* C14: whenever the key sets of the dicts that a weights computation joins
\* differ, the computation raises and returns nothing: saturations, market
\* caps and (when used) volatilities in the legacy stability pool weights;
\* saturations, prices and supplies in _calculate_k; supplies and prices in
\* get_iasset_ada_market_caps; pool balances and total supplies in the
\* saturation ratios.
C14_VolatilityUsed ==
    \/ w_day < Date(2023, 5, 26)
    \/ w_new # {}
    \/ {a \in DOMAIN w_sat : a \notin w_new /\ a \in w_hs} = {}
    \/ DOMAIN w_mcap \ w_new = {}

C14_LegacyKeysDiffer ==
    /\ w_day < Date(2023, 11, 6)
    /\ \/ DOMAIN w_sat # DOMAIN w_mcap
       \/ C14_VolatilityUsed /\ DOMAIN w_vol # DOMAIN w_sat

C14_KKeysDiffer ==
    DOMAIN k_b # DOMAIN k_c \/ DOMAIN k_c # DOMAIN k_d

C14_McapKeysDiffer ==
    DOMAIN m_supplies # DOMAIN m_prices

C14_RatioKeysDiffer ==
    {l_statuses[i].lp.iasset : i \in 1..Len(l_statuses)} # DOMAIN l_supplies

C14_KeyMismatchRaises ==
    /\ (w_status # "idle" /\ C14_LegacyKeysDiffer) => (w_status = "raise" /\ w_ret = <<>>)
    /\ (k_status # "idle" /\ C14_KKeysDiffer) => (k_status = "raise" /\ k_ret = <<>>)
    /\ (m_status # "idle" /\ C14_McapKeysDiffer) => (m_status = "raise" /\ m_ret = <<>>)
    /\ (l_status # "idle" /\ C14_RatioKeysDiffer) => (l_status = "raise" /\ l_rewards = <<>>)

C14_Witness ==
    /\ w_status = "raise"
    /\ w_day = Date(2023, 5, 26)
    /\ w_new = {}
    /\ w_hs = {"iUSD"}
    /\ DOMAIN w_sat = {"iUSD"} /\ w_sat["iUSD"] = Rat(1, 2)
    /\ DOMAIN w_mcap = {"iUSD", "iBTC"} /\ w_mcap["iUSD"] = One /\ w_mcap["iBTC"] = One

C14_WitnessK == k_status = "raise" /\ C14_KKeysDiffer /\ DOMAIN k_b = DOMAIN k_c
C14_WitnessMcap == m_status = "raise" /\ C14_McapKeysDiffer
C14_WitnessRatio == l_status = "raise" /\ C14_RatioKeysDiffer /\ l_statuses # <<>>

\* C15: in the legacy stability pool weights, an asset of the saturation
\* map that is not in has_stakers gets weight 0 and adds nothing to the
\* inverse-saturation, market-cap and inverse-volatility sums: whenever the
\* call on the staked assets alone returns weights, the call on all assets
\* (the others having values that pass the range checks) returns those
\* weights and 0 for the others.
C15_Staked(dict) == [a \in DOMAIN dict \cap w_hs |-> dict[a]]

C15_UnstakedValid ==
    /\ DOMAIN w_sat = DOMAIN w_mcap /\ DOMAIN w_sat = DOMAIN w_vol
    /\ DOMAIN w_sat \ w_hs # {}
    /\ \A a \in DOMAIN w_sat \ w_hs :
          /\ RLe(Zero, w_sat[a]) /\ RLe(w_sat[a], One)
          /\ RLt(Zero, w_mcap[a])
          /\ RLt(Zero, w_vol[a])

C15_OnStakedAlone ==
    get_pool_weights_before_epoch_448(C15_Staked(w_sat), C15_Staked(w_mcap), w_day,
                                      w_new, w_hs, C15_Staked(w_vol))

C15_NoStakersExcluded ==
    (w_status # "idle" /\ w_day < Date(2023, 11, 6) /\ C15_UnstakedValid
        /\ ~C15_OnStakedAlone.raised) =>
        /\ w_status = "return"
        /\ DOMAIN w_ret = DOMAIN w_sat
        /\ \A a \in DOMAIN w_sat :
              w_ret[a] = IF a \in w_hs THEN C15_OnStakedAlone.val[a] ELSE Zero

\* The part of C15 that holds: whenever the call returns, the assets not in
\* has_stakers have weight 0.
C15_ZeroWhenReturned ==
    (w_status = "return" /\ w_day < Date(2023, 11, 6)) =>
        \A a \in DOMAIN w_sat \ w_hs : w_ret[a] = Zero

\* C16: polygon_api.get_daily_closing_prices(ticker, first_day, last_day)
\* raises ValueError without fetching when first_day > last_day or when
\* first_day or last_day is the current UTC date or later; it raises when a
\* day of first_day..last_day is absent from the response; when it returns,
\* the result has a price for every day of first_day..last_day (last_day
\* None standing for first_day).
C16_LastDay == IF c_last_day = <<>> THEN c_first_day ELSE c_last_day[1]

C16_ResponseDays ==
    IF c_response.failed \/ "results" \notin c_response.keys THEN {}
    ELSE {c_response.results[i].day : i \in 1..Len(c_response.results)}

C16_ClosingPrices ==
    (c_status # "idle") =>
        /\ (c_first_day > C16_LastDay) => (c_status = "ValueError" /\ ~c_fetched)
        /\ (c_first_day >= c_today[1]) => (c_status = "ValueError" /\ ~c_fetched)
        /\ (C16_LastDay >= c_today[2]) => (c_status = "ValueError" /\ ~c_fetched)
        /\ (\E day \in c_first_day..C16_LastDay : day \notin C16_ResponseDays) =>
              (c_status # "return" /\ c_ret = <<>>)
        /\ (c_status = "return") =>
              /\ c_fetched
              /\ \A day \in c_first_day..C16_LastDay :
                    day \in DOMAIN c_ret /\ c_ret[day] = One

C16_Witness ==
    /\ c_status = "return"
    /\ c_first_day = Date(2023, 1, 7)
    /\ c_last_day = <<Date(2023, 1, 9)>>
    /\ DOMAIN c_ret = ClosingDays

C16_WitnessUnfinished ==
    /\ c_status = "ValueError"
    /\ c_first_day < c_today[1]
    /\ C16_LastDay = c_today[2]

C16_WitnessMissing ==
    /\ c_status = "Exception"
    /\ c_last_day = <<>>
    /\ c_response.status = "OK" /\ c_response.queryCount = 1 /\ c_response.resultsCount = 1
    /\ C16_ResponseDays = {c_first_day + 1}

\* C17: summary.get_summary(rewards, with_totals=True) lists one row per
\* distinct purpose with the summed amount, then one "Total <main purpose>"
\* row per group of _split_purpose ("Reward for providing X liquidity on D"
\* in group "LP reward" with detail "X on D", "SP reward for X" in group "SP
\* reward" with detail "X", any other purpose a group of its own without
\* detail) with the sum of the group's rows, and last a "Total" row with the
\* sum of all per-purpose rows, which is the sum of the group totals.
C17_Purposes == {u_rewards[i].description : i \in 1..Len(u_rewards)}

C17_GroupOf(purpose) ==
    IF Len(purpose) = 7 /\ purpose[1] = "Reward" /\ purpose[6] = "on"
    THEN <<"LP", "reward">>
    ELSE IF Len(purpose) = 4 /\ purpose[1] = "SP" THEN <<"SP", "reward">>
    ELSE purpose

C17_Groups == {C17_GroupOf(purpose) : purpose \in C17_Purposes}

C17_AmountOf(purposes) ==
    lovelaces_to_indy(SumLovelaces(SelectSeq(u_rewards, LAMBDA x : x.description \in purposes)))

C17_SplitAsStated ==
    /\ split_purpose(SummaryPurposes[3]) =
          [main |-> <<"LP", "reward">>, details |-> <<"iBTC", "on", "Minswap">>]
    /\ split_purpose(SummaryPurposes[6]) =
          [main |-> <<"SP", "reward">>, details |-> <<"iUSD">>]
    /\ split_purpose(SummaryPurposes[2]) =
          [main |-> <<"INDY", "staking", "reward">>, details |-> <<>>]
    /\ \A purpose \in C17_Purposes : split_purpose(purpose).main = C17_GroupOf(purpose)

C17_Layout ==
    LET np == Cardinality(C17_Purposes)
        ng == Cardinality(C17_Groups)
    IN  /\ C17_SplitAsStated
        /\ Len(u_ret) = np + ng + 1
        /\ {u_ret[i].Purpose : i \in 1..np} = C17_Purposes
        /\ \A i \in 1..np : u_ret[i].Amount = C17_AmountOf({u_ret[i].Purpose})
        /\ {u_ret[np + j].Purpose : j \in 1..ng} = {<<"Total">> \o g : g \in C17_Groups}
        /\ \A j \in 1..ng :
              u_ret[np + j].Amount =
                  sum_amounts(SelectSeq(SubSeq(u_ret, 1, np),
                      LAMBDA row : <<"Total">> \o C17_GroupOf(row.Purpose) = u_ret[np + j].Purpose))
        /\ u_ret[np + ng + 1].Purpose = <<"Total">>
        /\ u_ret[np + ng + 1].Amount = sum_amounts(SubSeq(u_ret, 1, np))
        /\ u_ret[np + ng + 1].Amount = sum_amounts(SubSeq(u_ret, np + 1, np + ng))

\* As the claim states it, for every list of rewards.
C17_SummaryWithTotals ==
    (u_status = "return" /\ u_with_totals) => C17_Layout

\* For a list of at least one reward; of no rewards the summary is an empty
\* frame, without a "Total" row.
C17_SummaryOfRewards ==
    (u_status = "return" /\ u_with_totals) =>
        IF u_rewards = <<>> THEN u_ret = <<>> ELSE C17_Layout

C17_Witness ==
    /\ u_status = "return"
    /\ u_with_totals
    /\ Cardinality(C17_Purposes) = 3
    /\ C17_Groups = {<<"LP", "reward">>, <<"SP", "reward">>}
    /\ Len(u_ret) = 6
    /\ u_ret[6] = Row(<<"Total">>, Rat(2333333, 1000000))


\* ---- C18 ----
\* The sums of the call, as _calculate_weight computes them first.
C18_SatInverseSum == get_sat_inverse_sum(v_sat, v_hs, v_new)

C18_McapSum == get_mcap_sum(v_mcap, v_new)

\* The asset is outside its new window and has stakers.
C18_InBasis == v_iasset \notin v_new /\ v_iasset \in v_hs

\* The call got as far as deciding on the volatility: both sums were
\* computed and the asset's own saturation and market cap were found.
C18_Decided ==
    /\ v_status # "idle"
    /\ ~C18_SatInverseSum.raised
    /\ ~C18_McapSum.raised
    /\ C18_InBasis => v_iasset \in DOMAIN v_sat \cap DOMAIN v_mcap

C18_Stated ==
    \/ v_day < Date(2023, 5, 26)
    \/ v_new # {}
    \/ RLe(C18_SatInverseSum.val, Zero)
    \/ RLe(C18_McapSum.val, Zero)

C18_SaturationTerm ==
    IF C18_InBasis
    THEN RDiv(RDiv(One, v_sat[v_iasset]), C18_SatInverseSum.val)
    ELSE Zero

C18_MarketCapTerm ==
    IF C18_InBasis THEN RDiv(v_mcap[v_iasset], C18_McapSum.val) ELSE Zero

\* C18: a call of _calculate_weight that computed its sums consulted
\* get_all_volatilities exactly when day < 2023-05-26, or new_iassets is
\* non-empty, or the inverse-saturation sum is <= 0, or the market-cap sum is
\* <= 0; in every other case nothing was fetched and a returned weight is the
\* mean of the asset's saturation term and market-cap term.
C18_VolatilityConsulted ==
    C18_Decided =>
        /\ v_fetched <=> C18_Stated
        /\ (~C18_Stated /\ v_status = "return") =>
               v_ret = RDiv(RAdd(C18_SaturationTerm, C18_MarketCapTerm), <<2, 1>>)

\* A call on 2023-05-26 with no new asset that fetched nothing and returned
\* the mean of 2/3 and 1/4.
C18_Witness ==
    /\ v_status = "return"
    /\ v_day = Date(2023, 5, 26)
    /\ v_new = {}
    /\ ~v_fetched
    /\ C18_SaturationTerm = Rat(2, 3)
    /\ C18_MarketCapTerm = Rat(1, 4)
    /\ v_ret = Rat(11, 24)

\* A call on 2023-05-26 that fetched the volatilities because an asset is new.
C18_WitnessNew ==
    /\ v_status = "return"
    /\ v_day = Date(2023, 5, 26)
    /\ v_new # {}
    /\ v_fetched

\* A call on 2023-05-26 with no new asset that fetched the volatilities
\* because no saturation was counted.
C18_WitnessNoSum ==
    /\ C18_Decided
    /\ v_day = Date(2023, 5, 26)
    /\ v_new = {}
    /\ v_fetched


\* ---- C19 ----
\* (1/volatility) / sum(1/volatility over the assets with stakers)
C19_VolatilityTerm ==
    LET staked == DOMAIN v_vol \cap v_hs
    IN  RDiv(RDiv(One, v_vol[v_iasset]),
             RSum([a \in staked |-> RDiv(One, v_vol[a])], staked))

\* (1/saturation) / sum(1/saturation over the assets with stakers outside
\* their new window)
C19_SaturationTerm ==
    LET eligible == (DOMAIN v_sat \cap v_hs) \ v_new
    IN  RDiv(RDiv(One, v_sat[v_iasset]),
             RSum([a \in eligible |-> RDiv(One, v_sat[a])], eligible))

\* marketCap / sum(marketCap over the assets outside their new window)
C19_MarketCapTerm ==
    RDiv(v_mcap[v_iasset], RSum(v_mcap, DOMAIN v_mcap \ v_new))

\* A weight was returned for an asset with stakers.
C19_Returned == v_status = "return" /\ v_iasset \in v_hs

\* Both sums have something in them: the saturation/market-cap basis exists.
C19_Basis ==
    /\ (DOMAIN v_sat \cap v_hs) \ v_new # {}
    /\ DOMAIN v_mcap \ v_new # {}

\* The mean of the terms that apply to the asset, the saturation and the
\* market-cap term applying outside the new window only.
C19_MeanOfApplicable ==
    IF v_iasset \in v_new THEN C19_VolatilityTerm
    ELSE IF v_fetched
    THEN RDiv(RAdd(RAdd(C19_VolatilityTerm, C19_SaturationTerm), C19_MarketCapTerm),
              <<3, 1>>)
    ELSE RDiv(RAdd(C19_SaturationTerm, C19_MarketCapTerm), <<2, 1>>)

\* C19 as stated: the weight returned for an asset with stakers is the mean
\* of the terms applicable to it, which for an asset in its new window is the
\* volatility term alone.
C19_MeanOfApplicableTerms == C19_Returned => v_ret = C19_MeanOfApplicable

\* The call came to its last step for a new asset without a basis.
C19_VolatilityOnly ==
    /\ C18_Decided
    /\ v_iasset \in v_hs \cap v_new
    /\ ~C19_Basis
    /\ ~get_volatility_term(v_iasset, v_vol, v_hs).raised

\* C19, amended: outside its new window the weight of an asset with stakers
\* is the mean of its volatility term (when volatility is used), saturation
\* term and market-cap term; inside its new window it is a third of its
\* volatility term while the saturation/market-cap basis exists, and the
\* volatility term alone when it does not, the call raising when that term
\* is not positive.
C19_FinalWeight ==
    /\ C19_Returned =>
          v_ret = IF v_iasset \notin v_new THEN C19_MeanOfApplicable
                  ELSE IF C19_Basis THEN RDiv(C19_VolatilityTerm, <<3, 1>>)
                  ELSE C19_VolatilityTerm
    /\ C19_VolatilityOnly =>
          IF v_iasset \in DOMAIN v_vol /\ RLt(Zero, C19_VolatilityTerm)
          THEN v_status = "return" \/ DOMAIN v_sat # DOMAIN v_vol
                                  \/ DOMAIN v_mcap # DOMAIN v_vol
          ELSE v_status = "raise"

\* A new asset with stakers beside an old one: a third of its volatility
\* term 1/2.
C19_Witness ==
    /\ C19_Returned
    /\ v_iasset \in v_new
    /\ C19_Basis
    /\ C19_VolatilityTerm = Rat(1, 2)
    /\ v_ret = Rat(1, 6)

\* A new asset with stakers and no basis: its volatility term alone.
C19_WitnessAlone ==
    /\ C19_Returned
    /\ v_iasset \in v_new
    /\ ~C19_Basis
    /\ v_ret = Rat(1, 3)

\* A new asset with stakers and no basis whose volatility term is not
\* positive: the call raised.
C19_WitnessRaise ==
    /\ C19_VolatilityOnly
    /\ v_iasset \notin DOMAIN v_vol
    /\ v_status = "raise"

\* An old asset with stakers: the mean of the three terms.
C19_WitnessThree ==
    /\ C19_Returned
    /\ v_iasset \notin v_new
    /\ v_fetched
    /\ v_ret = Rat(17, 36)


\* ---- C20 ----
\* A legacy weight computation has been made.
C20_Computed == w_status # "idle" /\ w_day < Date(2023, 11, 6)

C20_BadVolatility ==
    C14_VolatilityUsed /\ \E a \in DOMAIN w_vol : RLe(w_vol[a], Zero)

C20_SaturationOutOfRange ==
    \E a \in DOMAIN w_sat : RLt(w_sat[a], Zero) \/ RLt(One, w_sat[a])

C20_ZeroSaturation == \E a \in DOMAIN w_sat : w_sat[a] = Zero

\* A zero saturation of an asset that has stakers and is outside its new
\* window: the only saturations that are inverted.
C20_ZeroSaturationCounted ==
    \E a \in (DOMAIN w_sat \cap w_hs) \ w_new : w_sat[a] = Zero

C20_BadMarketCap == \E a \in DOMAIN w_mcap : RLe(w_mcap[a], Zero)

C20_WitnessMarketCap ==
    /\ w_status = "raise"
    /\ w_day = Date(2023, 5, 26)
    /\ w_sat = [a \in InputAssets |-> Rat(1, 2)]
    /\ w_mcap = [a \in InputAssets |-> IF a = "iUSD" THEN Zero ELSE One]
    /\ w_new = {}
    /\ w_hs = InputAssets

\* A call that raised on a zero volatility alone.
C20_WitnessVolatility ==
    /\ w_status = "raise"
    /\ w_day = Date(2023, 5, 25)
    /\ w_sat = [a \in InputAssets |-> Rat(1, 2)]
    /\ w_mcap = [a \in InputAssets |-> One]
    /\ w_vol = [a \in InputAssets |-> IF a = "iUSD" THEN Zero ELSE One]
    /\ w_new = {}
    /\ w_hs = InputAssets

\* Weights returned from maps in which a new asset without stakers has
\* saturation zero.
C20_WitnessAccepted ==
    /\ C20_Computed
    /\ w_status = "return"
    /\ C20_ZeroSaturation


\* ---- C30 ----
\* The dates of a list of snapshot dates.
C30_DatesOf(dates) == {dates[i] : i \in DOMAIN dates}

\* C30: epochs partition the calendar: a date is one of the snapshot dates
\* of its own epoch, every snapshot date of an epoch has that epoch, and
\* date_to_epoch never decreases as the date grows.
C30_EpochsPartitionCalendar ==
    /\ (t_call = "date_to_epoch") =>
          /\ t_arg \in C30_DatesOf(get_epoch_snapshot_dates(t_ret))
          /\ \A d \in TimeDates : d <= t_arg => date_to_epoch(d) <= t_ret
    /\ (t_call = "get_epoch_snapshot_dates") =>
          \A d \in C30_DatesOf(t_ret) : date_to_epoch(d) = t_arg

\* 2023-03-22 is the first snapshot date of its epoch, 401.
C30_Witness ==
    /\ t_call = "date_to_epoch"
    /\ t_arg = Date(2023, 3, 22)
    /\ t_ret = 401
    /\ get_epoch_snapshot_dates(t_ret)[1] = t_arg
    /\ date_to_epoch(t_arg - 1) = 400

\* The snapshot dates of epoch 401, each of them in epoch 401.
C30_WitnessDates ==
    /\ t_call = "get_epoch_snapshot_dates"
    /\ t_arg = 401
    /\ t_ret[5] = Date(2023, 3, 26)
    /\ date_to_epoch(t_ret[1]) = 401


\* ---- C29 ----
\* The account is at least 24 hours old at the snapshot of the day (accounts
\* of iSOL count as such before 2024-11-27).
C29_Eligible(account) ==
    \/ account.opened_at + 86400 <= get_snapshot_unix_time(s_day)
    \/ account.asset = "iSOL" /\ s_day < Date(2024, 11, 27)

C29_EligibleRecords == SelectSeq(s_all_accounts, C29_Eligible)

C29_Pairs ==
    {<<C29_EligibleRecords[i].owner, C29_EligibleRecords[i].asset>> :
        i \in 1..Len(C29_EligibleRecords)}

\* The sum of iasset_staked over the eligible records that satisfy P.
C29_Staked(P(_)) ==
    LET records == SelectSeq(C29_EligibleRecords, P)
    IN  RSumSeq([k \in 1..Len(records) |-> records[k].iasset_staked])

C29_StakedOfPair(pair) ==
    C29_Staked(LAMBDA x : x.owner = pair[1] /\ x.asset = pair[2])

C29_StakedOfAsset(asset) == C29_Staked(LAMBDA x : x.asset = asset)

\* The INDY of the day for the pool of the asset.
C29_PoolIndy(asset) ==
    LET i == CHOOSE k \in 1..Len(s_rewards_per_pool) :
                  s_rewards_per_pool[k].iasset = asset
    IN  s_rewards_per_pool[i].indy

C29_RewardsOfPair(pair) ==
    {i \in 1..Len(s_rewards) :
        /\ s_rewards[i].pkh = pair[1]
        /\ s_rewards[i].description = <<"SP reward for", pair[2]>>}

\* C29: when sp.get_rewards_per_staker returns, there is exactly one reward
\* per distinct (owner, asset) pair of the accounts at least 24h old, its
\* amount is the pair's share of the pool's INDY by the sum of iasset_staked
\* over the pair's eligible records alone, and no reward belongs to a pair
\* without an eligible record.
C29_OneRewardPerPair ==
    (s_status = "return") =>
        /\ \A pair \in C29_Pairs :
              /\ Cardinality(C29_RewardsOfPair(pair)) = 1
              /\ \A i \in C29_RewardsOfPair(pair) :
                    s_rewards[i].indy =
                        RMul(RDiv(C29_StakedOfPair(pair), C29_StakedOfAsset(pair[2])),
                             C29_PoolIndy(pair[2]))
        /\ \A i \in 1..Len(s_rewards) : \E pair \in C29_Pairs : i \in C29_RewardsOfPair(pair)

\* Two eligible records of A and one of B in the pool of iUSD: A's one
\* reward is 2/5 of the pool's INDY.
C29_Witness ==
    /\ s_status = "return"
    /\ Len(C29_EligibleRecords) = 3
    /\ C29_Pairs = {<<"A", "iUSD">>, <<"B", "iUSD">>}
    /\ C29_StakedOfPair(<<"A", "iUSD">>) = <<2, 1>>
    /\ C29_PoolIndy("iUSD") # Zero
    /\ \A i \in C29_RewardsOfPair(<<"A", "iUSD">>) :
          s_rewards[i].indy = RMul(Rat(2, 5), C29_PoolIndy("iUSD"))

\* An eligible and a younger record of A beside one of B in the pool of
\* iUSD: the younger record counts for nothing, A's reward is 1/4 of the
\* pool's INDY.
C29_WitnessYounger ==
    /\ s_status = "return"
    /\ Len(s_all_accounts) = 3
    /\ \A j \in 1..3 : s_all_accounts[j].asset = "iUSD"
    /\ Cardinality({j \in 1..3 : s_all_accounts[j].owner = "A"}) = 2
    /\ Len(C29_EligibleRecords) = 2
    /\ C29_Pairs = {<<"A", "iUSD">>, <<"B", "iUSD">>}
    /\ C29_PoolIndy("iUSD") # Zero
    /\ \A i \in C29_RewardsOfPair(<<"A", "iUSD">>) :
          s_rewards[i].indy = RMul(Rat(1, 4), C29_PoolIndy("iUSD"))


\* ---- C26 ----
\* The weights of the rule version whose denominator is the emission of the
\* epoch: a hard-coded table, or the legacy formula on the data of the day
\* while the emission is 28768.
C26_WeightsByEmission(day) ==
    CASE r_emission = 2118977 -> DictFromStr(Table_2024_12_05)
      [] r_emission = 1966435 -> DictFromStr(Table_2024_11_26)
      [] r_emission = 1866435 -> DictFromStr(Table_2024_07_14)
      [] r_emission = 2243100 -> DictFromStr(Table_2023_11_06)
      [] r_emission = 2876800 ->
            get_pool_weights_before_epoch_448(RuleSaturations(day), RuleMarketCaps(day),
                                              day, get_new_iassets(day),
                                              get_active_iassets(day),
                                              RuleVolatilities(day))

\* C26: the five snapshot days of an epoch all get their weights from the
\* rule version that belongs to sp_epoch_emission of the epoch.
C26_OneRulePerEpoch ==
    (r_status = "done") =>
        \A i \in 1..5 :
            r_weights[i] = C26_WeightsByEmission(get_epoch_end_date(r_epoch) - (5 - i))

\* What holds instead: the days of an epoch before 2023-11-06 get the legacy
\* weights and the days from 2023-11-06 on the table of 22431, so epoch 446,
\* which ends on 2023-11-06, is the one epoch up to 523 with two versions.
C26_OneRulePerEpochBut446 ==
    (r_status = "done" /\ r_epoch # 446) =>
        \A i \in 1..5 :
            r_weights[i] = C26_WeightsByEmission(get_epoch_end_date(r_epoch) - (5 - i))

\* Epoch 446: four days of legacy weights, then the table of epoch 447.
C26_Epoch446 ==
    /\ r_status = "done"
    /\ r_epoch = 446
    /\ r_emission = 2876800
    /\ \A i \in 1..4 : r_weights[i] = Returned([x \in IAsset |->
                              IF x = "iUSD" THEN Rat(7, 15) ELSE Rat(4, 15)])
    /\ r_weights[5] = DictFromStr(Table_2023_11_06)


\* ---- C21 ----
\* The i-th snapshot day of the epoch, the fifth being its end.
C21_Day(i) == get_epoch_end_date(a_epoch) - (5 - i)

\* The snapshots a complete call fetches, in its order: that of governance
\* at the end of the epoch, those of the stability pools day by day, and,
\* before epoch 422, those of the liquidity pools day by day.
C21_CompleteLog ==
    << <<"gov", C21_Day(5)>> >> \o [i \in 1..5 |-> <<"sp", C21_Day(i)>>]
        \o (IF a_epoch < 422 THEN [i \in 1..5 |-> <<"lp", C21_Day(i)>>] ELSE << >>)

\* The computation on a fetched snapshot raises.
C21_Raises(entry) ==
    LET i == entry[2] - C21_Day(1) + 1
    IN  CASE entry[1] = "gov" -> all_gov_rewards(a_epoch, a_gov_data).raised
          [] entry[1] = "sp" -> all_sp_rewards(entry[2], a_sp_data[i]).raised
          [] entry[1] = "lp" -> all_lp_rewards(entry[2], a_lp_data[i]).raised

\* Nothing is fetched out of turn, and nothing after a computation raised.
C21_InOrder ==
    /\ Len(a_log) <= Len(C21_CompleteLog)
    /\ a_log = SubSeq(C21_CompleteLog, 1, Len(a_log))
    /\ \A k \in 1..(Len(a_log) - 1) : ~C21_Raises(a_log[k])

\* A day's computation raised and the call raised with it, returning
\* nothing; or every day went through.
C21_AbortsAsAWhole ==
    /\ (a_phase = "raise") =>
          /\ a_ret = << >>
          /\ C21_Raises(a_log[Len(a_log)]) \/ a_log = C21_CompleteLog
    /\ (a_phase = "return") =>
          /\ a_log = C21_CompleteLog
          /\ \A k \in 1..Len(a_log) : ~C21_Raises(a_log[k])
    /\ (a_phase \in {"gov", "sp", "lp"} /\ a_log # << >>) =>
          ~C21_Raises(a_log[Len(a_log)])

\* C21 as stated: the snapshot days are taken strictly one after the other,
\* oldest first, and a day that raises makes the whole call raise with
\* nothing returned and no later day fetched.
C21_OldestFirst ==
    (a_phase # "idle") =>
        /\ \A j, k \in 1..Len(a_log) : j < k => a_log[j][2] <= a_log[k][2]
        /\ C21_AbortsAsAWhole

\* C21, amended: get_epoch_all_rewards first takes the governance snapshot
\* of the epoch's last day, then the five days of the stability pools oldest
\* first, then (epoch < 422) the five days of the liquidity pools oldest
\* first, which is the order of sp and lp get_epoch_rewards_per_staker; a
\* computation that raises makes the whole call raise, nothing is returned
\* and nothing more is fetched.
C21_CategoryByCategory ==
    (a_phase # "idle") => (C21_InOrder /\ C21_AbortsAsAWhole)

\* The third day of the stability pools raised: two days of rewards had been
\* collected, nothing is returned, and the log ends with that day.
C21_Witness ==
    /\ a_phase = "raise"
    /\ a_log = SubSeq(C21_CompleteLog, 1, 4)
    /\ a_log[4] = <<"sp", C21_Day(3)>>
    /\ a_sp # << >>
    /\ a_ret = << >>

\* The third day of the liquidity pools raised after all of the stability
\* pools' days.
C21_WitnessLp ==
    /\ a_phase = "raise"
    /\ Len(a_log) = 9
    /\ a_log[9] = <<"lp", C21_Day(3)>>
    /\ a_lp # << >>
    /\ a_ret = << >>

\* ---- C28 ----
\* How often x occurs in a list.
C28_Count(list, x) == Cardinality({i \in 1..Len(list) : list[i] = x})

\* The rewards of the five calls of get_day_all_rewards, one list after
\* the other.
C28_Union == a_days[1].val \o a_days[2].val \o a_days[3].val \o a_days[4].val \o a_days[5].val

C28_BothSucceed ==
    /\ a_phase = "return"
    /\ Len(a_days) = 5
    /\ \A i \in 1..5 : ~a_days[i].raised

C28_IsGov(reward) == reward.description = "INDY staking reward"

C28_IsLp(reward) == reward \in {a_lp[i] : i \in 1..Len(a_lp)}

\* C28: when get_epoch_all_rewards and the five get_day_all_rewards of its
\* snapshot days succeed, their rewards are the same multiset; governance
\* rewards come with the last day only; the epoch includes liquidity-pool
\* rewards (epoch < 422) exactly when each of its days does
\* (day <= 2023-07-04).
C28_EpochIsUnionOfDays ==
    C28_BothSucceed =>
        /\ Len(a_ret) = Len(C28_Union)
        /\ \A i \in 1..Len(a_ret) :
              C28_Count(a_ret, a_ret[i]) = C28_Count(C28_Union, a_ret[i])
        /\ \A d \in 1..4 : \A i \in 1..Len(a_days[d].val) : ~C28_IsGov(a_days[d].val[i])
        /\ \A d \in 1..5 : (a_epoch < 422) <=> (C21_Day(d) <= Date(2023, 7, 4))

\* Epoch 421, the last with liquidity-pool rewards: the rewards of the three
\* categories, the governance ones from the last day.
C28_Witness ==
    /\ C28_BothSucceed
    /\ a_epoch = 421
    /\ a_lp # << >>
    /\ \E i \in 1..Len(a_ret) : C28_IsLp(a_ret[i])
    /\ \E i \in 1..Len(a_days[5].val) : C28_IsGov(a_days[5].val[i])
    /\ a_ret # C28_Union

\* Epoch 422: no liquidity-pool reward in either.
C28_WitnessWithout ==
    /\ C28_BothSucceed
    /\ a_epoch = 422
    /\ a_lp = << >>
    /\ Len(a_ret) = Len(a_sp) + Len(a_gov)
    /\ a_ret # << >>


\* Every day went through and check_sum raised at the end.
C21_WitnessSum ==
    /\ a_phase = "raise"
    /\ a_log = C21_CompleteLog
    /\ ~C21_Raises(a_log[Len(a_log)])
    /\ Len(a_lp) > 0
    /\ a_ret = << >>


---------------------------------------------------------------------------
(* C25: the epoch APR of a pool *)

\* The snapshot days, of the five gone through, on which the pool has a daily APR
C25_DaysOf(pool) == {i \in 1..Len(q_days) : pool \in DOMAIN q_days[i]}

\* The sum of the pool's daily APRs
C25_Sum(pool) ==
    RSumSeq([i \in 1..Len(q_days) |-> IF pool \in DOMAIN q_days[i] THEN q_days[i][pool] ELSE Zero])

C25_Pools == UNION {DOMAIN q_days[i] : i \in 1..Len(q_days)}

\* C25 as stated: the epoch APR of every pool in the result of get_epoch_aprs
\* is the sum of its daily APRs of the epoch divided by 5.
C25_MeanOfFiveDays ==
    q_status = "return" =>
        \A pool \in DOMAIN q_ret : q_ret[pool] = RDiv(C25_Sum(pool), <<5, 1>>)

\* C25, amended: the result of get_epoch_aprs has the pools that have a daily
\* APR on at least one of the 5 snapshot days, and the epoch APR of a pool is
\* the sum of its daily APRs divided by the number of days on which it has
\* one; that is the sum of five divided by 5 for a pool that has a daily APR
\* on all 5 days.
C25_MeanOfItsDays ==
    q_status = "return" =>
        /\ Len(q_days) = 5
        /\ DOMAIN q_ret = C25_Pools
        /\ \A pool \in DOMAIN q_ret :
              /\ q_ret[pool] = RDiv(C25_Sum(pool), <<Cardinality(C25_DaysOf(pool)), 1>>)
              /\ C25_DaysOf(pool) = 1..5 => q_ret[pool] = RDiv(C25_Sum(pool), <<5, 1>>)

\* An epoch APR is returned for a pool whose daily APRs of the 5 days differ
C25_Witness ==
    /\ q_status = "return"
    /\ \E pool \in DOMAIN q_ret :
          /\ C25_DaysOf(pool) = 1..5
          /\ \E i, j \in 1..5 : q_days[i][pool] # q_days[j][pool]

\* A stability pool has a daily APR on 4 of the 5 days only: iETH in the
\* epoch on whose first day it is launched
C25_WitnessLaunch ==
    /\ q_status = "return"
    /\ q_module = "sp"
    /\ "iETH" \in DOMAIN q_ret
    /\ C25_DaysOf("iETH") = 2..5

\* A liquidity pool is listed on some of the 5 days only
C25_WitnessListed ==
    /\ q_status = "return"
    /\ q_module = "lp"
    /\ \E pool \in DOMAIN q_ret : Cardinality(C25_DaysOf(pool)) \in 1..4


---------------------------------------------------------------------------
(* C22: the window of get_volatility *)

\* The 365 consecutive days day - 365 .. day - 1, oldest first
C22_Window == [i \in 1..365 |-> g_day - 366 + i]

C22_Known == Lower(g_symbol) \in {"iusd", "ibtc", "ieth"}

C22_WitnessTicker ==
    /\ g_status = "return"
    /\ Lower(g_symbol) = "ibtc"
    /\ Len(g_requests) = 2

\* A symbol without a ticker raises
C22_WitnessUnknown ==
    /\ g_status = "ValueError"
    /\ g_symbol = "iSOL"


---------------------------------------------------------------------------
(* C27: the staked LP tokens of an account with several records *)

\* The sum of the token's amounts over the records of the owners
RECURSIVE C27_SumOfRecords(_, _, _)
C27_SumOfRecords(records, owners, token) ==
    IF records = <<>> THEN 0
    ELSE (IF Head(records).owner \in owners /\ token \in DOMAIN Head(records).value
          THEN Head(records).value[token] ELSE 0)
         + C27_SumOfRecords(Tail(records), owners, token)

C27_Owners == {d_positions[i].owner : i \in 1..Len(d_positions)}

\* The last record of the owner that holds the token
C27_LastRecord(owner, token) ==
    d_positions[CHOOSE i \in 1..Len(d_positions) :
        /\ d_positions[i].owner = owner /\ token \in DOMAIN d_positions[i].value
        /\ \A j \in (i + 1)..Len(d_positions) :
              ~(d_positions[j].owner = owner /\ token \in DOMAIN d_positions[j].value)]

\* C27: for every account and pool token, the staked count of the account in
\* get_account_staked_lp_tokens is the sum of the token's amounts over all
\* liquidity-position records of the account, and the token's total in
\* get_staked_lp_token_supplies is the sum over all records.
C27_SumOverAllRecords ==
    /\ d_staked_status = "return" =>
          \A lp \in DOMAIN d_staker_info : \A staker \in DOMAIN d_staker_info[lp] :
              d_staker_info[lp][staker] = C27_SumOfRecords(d_positions, {staker}, lp.lp_token_id)
    /\ d_supplies_status = "return" =>
          \A token \in DOMAIN d_supplies :
              d_supplies[token] = C27_SumOfRecords(d_positions, C27_Owners, token)

\* What the code computes instead: the amount of the account's last record
\* that holds the token, and the totals of these amounts.
C27_LastRecordOnly ==
    /\ d_staked_status = "return" =>
          \A lp \in DOMAIN d_staker_info : \A staker \in DOMAIN d_staker_info[lp] :
              d_staker_info[lp][staker] = C27_LastRecord(staker, lp.lp_token_id).value[lp.lp_token_id]
    /\ d_supplies_status = "return" =>
          \A token \in DOMAIN d_supplies :
              d_supplies[token] =
                  C27_SumOfRecords(
                      [i \in 1..Len(d_positions) |->
                          IF /\ token \in DOMAIN d_positions[i].value
                             /\ d_positions[i] = C27_LastRecord(d_positions[i].owner, token)
                          THEN d_positions[i]
                          ELSE Position(d_positions[i].owner, <<>>)],
                      C27_Owners, token)

\* Both calls have returned for an account with two records of one token
C27_TwoRecords ==
    /\ d_staked_status = "return"
    /\ d_supplies_status = "return"
    /\ \E i, j \in 1..Len(d_positions) :
          /\ i < j
          /\ d_positions[i].owner = d_positions[j].owner
          /\ TokenMinswap \in DOMAIN d_positions[i].value \cap DOMAIN d_positions[j].value
    /\ \E lp \in DOMAIN d_staker_info : lp.lp_token_id = TokenMinswap

---------------------------------------------------------------------------
(* C23: MuesliSwap after 2023-05-30 *)

C23_Delisted == d_day > Date(2023, 5, 30)

\* C23: after 2023-05-30 get_lp_status returns no status of MuesliSwap and
\* get_account_staked_lp_tokens has no stakers of a token of the MuesliSwap v2
\* policy; on 2023-05-30 and before every fetched pool is returned, MuesliSwap
\* too, and a returned staker dict that is not empty has every holder of a
\* MuesliSwap v2 token as a staker of its pool.
C23_MuesliSwapDelisted ==
    /\ d_status = "return" /\ C23_Delisted =>
          \A i \in 1..Len(d_ret) : d_ret[i].lp.dex # "MuesliSwap"
    /\ d_staked_status = "return" /\ C23_Delisted =>
          \A lp \in DOMAIN d_staker_info : lp.lp_token_id[1] # muesliswap_lp_v2_policy
    /\ d_status = "return" /\ ~C23_Delisted =>
          /\ Len(d_ret) = Len(d_info.val)
          /\ \A i \in 1..Len(d_ret) :
                /\ d_ret[i].lp.lp_token_id = d_info.val[i].token
                /\ LowerDex(d_ret[i].lp.dex) = LowerDex(d_info.val[i].exchange)
    /\ d_staked_status = "return" /\ ~C23_Delisted /\ d_staker_info # <<>> =>
          \A i \in 1..Len(d_positions) :
              \A token \in DOMAIN d_positions[i].value \ {Lovelace} :
                  \E lp \in DOMAIN d_staker_info :
                      /\ lp.lp_token_id = token
                      /\ d_positions[i].owner \in DOMAIN d_staker_info[lp]

\* After the last day: a MuesliSwap pool is fetched and has a staker, both
\* calls return, other pools and stakers are returned
C23_Witness ==
    /\ C23_Delisted
    /\ d_status = "return" /\ d_staked_status = "return"
    /\ \E i \in 1..Len(d_info.val) : d_info.val[i].exchange = "MuesliSwap"
    /\ \E i \in 1..Len(d_positions) : TokenMuesliSwap \in DOMAIN d_positions[i].value
    /\ d_ret # <<>>
    /\ d_staker_info # <<>>

\* On the last day: the MuesliSwap pool and its staker are returned
C23_WitnessLastDay ==
    /\ ~C23_Delisted
    /\ d_status = "return" /\ d_staked_status = "return"
    /\ \E i \in 1..Len(d_ret) : d_ret[i].lp.dex = "MuesliSwap"
    /\ \E lp \in DOMAIN d_staker_info :
          lp.lp_token_id = TokenMuesliSwap /\ "B" \in DOMAIN d_staker_info[lp]

---------------------------------------------------------------------------
(* C24: what get_lp_status refuses *)

C24_Tokens == {d_info.val[i].token : i \in 1..Len(d_info.val)}

\* The cases in which the call has to raise; d_supplies is what
\* get_staked_lp_token_supplies returns for the day
C24_NotADA == \E i \in 1..Len(d_info.val) : d_info.val[i].assetB # "ADA"

C24_OtherDate ==
    \/ \E i \in 1..Len(d_info.val) : utc_date(d_info.val[i].timestamp) # d_day
    \/ \E i \in 1..Len(d_locked_asset) :
          /\ d_locked_asset[i].timestamp < get_snapshot_unix_time(d_day) + 20 * 3600
          /\ utc_date(d_locked_asset[i].timestamp) # d_day

C24_MoreStaked ==
    /\ d_with
    /\ \E token \in C24_Tokens \cap DOMAIN d_supplies \cap DOMAIN d_circ :
          d_supplies[token] > d_circ[token]

C24_OtherTokens == d_with /\ C24_Tokens # DOMAIN d_supplies

C24_WitnessNotADA ==
    d_status = "raise" /\ d_supplies_status = "return"
    /\ C24_NotADA /\ ~C24_OtherDate /\ ~C24_MoreStaked /\ ~C24_OtherTokens

C24_WitnessOtherDate ==
    d_status = "raise" /\ d_supplies_status = "return"
    /\ ~C24_NotADA /\ C24_OtherDate /\ ~C24_MoreStaked /\ ~C24_OtherTokens

C24_WitnessMoreStaked ==
    d_status = "raise" /\ d_supplies_status = "return"
    /\ ~C24_NotADA /\ ~C24_OtherDate /\ C24_MoreStaked /\ ~C24_OtherTokens

C24_WitnessOtherTokens ==
    d_status = "raise" /\ d_supplies_status = "return"
    /\ ~C24_NotADA /\ ~C24_OtherDate /\ ~C24_MoreStaked /\ C24_OtherTokens

===========================================================================
